---- MODULE Spec2Model ----
(***************************************************************************)
(* Chat mirroring and entitlement replies of the Slack integration         *)
(* (Packs/Slack/Integrations/SlackV3/SlackV3.py).                          *)
(*                                                                         *)
(* The integration context (the Context Store) holds the lists mirrors,    *)
(* questions, users and conversations and the cached bot_id.  Commands,    *)
(* the event listener (process) and the poller pass (check_for_mirrors)    *)
(* read it with get_integration_context and write it with                  *)
(* set_to_integration_context_with_retries.                                *)
(*                                                                         *)
(* Encoding of the values:                                                 *)
(*   investigation ids  1..MaxCases                                        *)
(*   channel ids        1..MaxChannels, handed out by conversations_create *)
(*   channel names      n > 0 is the name 'incident-<n>', n < 0 is a name  *)
(*                      without that form, 0 is the empty name             *)
(*   channel topics     a sequence of numbers read as the comma-joined     *)
(*                      list of its items: n > 0 is 'incident-<n>', 0 is a *)
(*                      text without the marker 'incident-'                *)
(*   message timestamps 1..MaxTs, handed out by chat_postMessage           *)
(***************************************************************************)
EXTENDS Integers, Sequences, FiniteSets, TLC

\* ---------------------------------------------------------------- bounds
MaxCases == 2
MaxChannels == 2
MaxTs == 3
\* the number of handler runs (commands, events, poller passes) explored
MaxSteps == 3
\* the number of handler runs explored when two writers run at the same time
MaxRuns == 4

Cases == 1..MaxCases
ChannelIds == 1..MaxChannels

\* ------------------------------------------------------------- constants
Absent == "<absent>"
MIRROR_TYPE == "mirrorEntry"
THANK_YOU == "Thank you for your response."
BOT == "BOT"

\* OBJECTS_TO_KEYS: the lists of the store that are merged by key
ObjectKeysWithoutQuestions == {"mirrors", "users"}
ObjectKeys == {"mirrors", "questions", "users"}

\* OBJECTS_TO_KEYS: the identity field of each merged list
MirrorsKeyByName(m) == m.channel_name
MirrorsKey(m) == m.investigation_id
QuestionsKeyByThread(q) == q.thread
QuestionsKey(q) == q.entitlement
UsersKey(u) == u.id

\* ------------------------------------------------------ sequence helpers
\* list.index(x): the first position holding x (0 when the list has none)
IndexOf(list, x) ==
    IF \E i \in DOMAIN list : list[i] = x
    THEN CHOOSE i \in DOMAIN list : list[i] = x /\ \A j \in 1..(i - 1) : list[j] # x
    ELSE 0

\* list.pop(i)
PopAt(list, i) == [j \in 1..(Len(list) - 1) |-> IF j < i THEN list[j] ELSE list[j + 1]]

\* list(filter(test, list)) is SelectSeq

\* ---------------------------------------------------------- Context Store
\* merge_lists(original_list, updated_list, key): the elements of the
\* latest list, each replaced by the writer's element of the same key, then
\* the writer's elements with a new key; elements flagged remove are dropped
\* element[key] for the key OBJECTS_TO_KEYS gives the list
KeyOf(object_key, e) ==
    IF object_key = "mirrors" THEN MirrorsKey(e)
    ELSE IF object_key = "questions" THEN QuestionsKey(e)
    ELSE UsersKey(e)

RECURSIVE DictOf(_, _, _)
DictOf(list, object_key, acc) ==
    \* {element[key]: element for element in list} as an ordered list of
    \* elements: a key keeps the position of its first element and the
    \* value of its last
    IF list = <<>> THEN acc
    ELSE LET e == Head(list)
             hit == \E i \in DOMAIN acc : KeyOf(object_key, acc[i]) = KeyOf(object_key, e)
         IN  DictOf(Tail(list), object_key,
                    IF hit THEN [i \in DOMAIN acc |->
                                    IF KeyOf(object_key, acc[i]) = KeyOf(object_key, e)
                                    THEN e ELSE acc[i]]
                    ELSE Append(acc, e))

IsRemoved(e) == "remove" \in DOMAIN e /\ e.remove

merge_lists(original_list, updated_list, object_key) ==
    LET original_dict == DictOf(original_list, object_key, <<>>)
        merged == DictOf(updated_list, object_key, original_dict)
    IN  SelectSeq(merged, LAMBDA e : ~IsRemoved(e))

\* update_integration_context and set_integration_context of
\* set_to_integration_context_with_retries(context, OBJECTS_TO_KEYS): the
\* keys of context that OBJECTS_TO_KEYS names are merged into the latest
\* version of the store, the other keys of context replace the stored value;
\* a version conflict makes the writer read the latest version again, so the
\* merge and the save act on the same version
set_to_integration_context_with_retries(latest, context) ==
    [mirrors |-> IF "mirrors" \notin DOMAIN context THEN latest.mirrors
                 ELSE IF "mirrors" \in ObjectKeys
                 THEN merge_lists(latest.mirrors, context.mirrors, "mirrors")
                 ELSE context.mirrors,
     questions |-> IF "questions" \notin DOMAIN context THEN latest.questions
                   ELSE IF "questions" \in ObjectKeys
                   THEN merge_lists(latest.questions, context.questions, "questions")
                   ELSE context.questions,
     users |-> IF "users" \notin DOMAIN context THEN latest.users
               ELSE IF "users" \in ObjectKeys
               THEN merge_lists(latest.users, context.users, "users")
               ELSE context.users,
     conversations |-> IF "conversations" \notin DOMAIN context THEN latest.conversations
                       ELSE context.conversations,
     bot_id |-> IF "bot_id" \in DOMAIN context THEN context.bot_id ELSE latest.bot_id]

\* the writes of one handler, applied in the order the handler issues them
RECURSIVE ApplyWrites(_, _)
ApplyWrites(latest, writes) ==
    IF writes = <<>> THEN latest
    ELSE ApplyWrites(set_to_integration_context_with_retries(latest, Head(writes)), Tail(writes))

EmptyContext ==
    [mirrors |-> <<>>, questions |-> <<>>, users |-> <<>>, conversations |-> <<>>, bot_id |-> ""]

\* ------------------------------------------------------- calls to others
\* one call to the chat vendor or to the case system
Call(name, chan, inv, who) == [call |-> name, chan |-> chan, inv |-> inv, who |-> who, ent |-> 0]

\* a call about an entitlement: its thread (0 for none), the incident and the
\* entitlement
CallEnt(name, thread, inv, who, ent) ==
    [call |-> name, chan |-> thread, inv |-> inv, who |-> who, ent |-> ent]

\* demisto.args().get(name, default); an absent channelName is the name 0
\* and an absent channelTopic the topic <<>>, their defaults
Arg(value, default) == IF value = Absent THEN default ELSE value

\* strtobool
strtobool(s) == s = "true"

\* f'incident-{investigation_id}'
IncidentName(investigation_id) == investigation_id

\* topic.find('incident-') != -1
HasIncidentMarker(topic) == \E i \in DOMAIN topic : topic[i] > 0

\* the mirror dict mirror_investigation builds for a case without mirror
\* (the key channel_topic is set afterwards, remove is not set)
new_mirror_mirrored(conversation_id, conversation_name, investigation_id, mirror_type, mirror_direction, mirror_to, auto_close) ==
    [channel_id |-> conversation_id,
     channel_name |-> conversation_name,
     investigation_id |-> investigation_id,
     mirror_type |-> mirror_type,
     mirror_direction |-> mirror_direction,
     mirror_to |-> mirror_to,
     auto_close |-> strtobool(auto_close),
     mirrored |-> TRUE,
     channel_topic |-> <<>>,
     remove |-> FALSE]

new_mirror(conversation_id, conversation_name, investigation_id, mirror_type, mirror_direction, mirror_to, auto_close) ==
    [channel_id |-> conversation_id,
     channel_name |-> conversation_name,
     investigation_id |-> investigation_id,
     mirror_type |-> mirror_type,
     mirror_direction |-> mirror_direction,
     mirror_to |-> mirror_to,
     auto_close |-> strtobool(auto_close),
     mirrored |-> FALSE,
     channel_topic |-> <<>>,
     remove |-> FALSE]

\* ------------------------------------------------- mirror_investigation
\* The handler as a function of the context it read (ic), the current case,
\* its arguments and the vendor state; it yields the contexts it writes, the
\* calls it makes, the vendor state and its result.
mirror_investigation(ic, investigation_id, args, slack) ==
    LET mirror_type == Arg(args.type, "all")
        auto_close == Arg(args.autoclose, "true")
        mirror_direction == Arg(args.direction, "both")
        mirror_to == Arg(args.mirrorTo, "group")
        channel_name_arg == args.channelName
        channel_topic_arg == args.channelTopic
        kick_admin == strtobool(Arg(args.kickAdmin, "false"))
        mirrors0 == ic.mirrors
        current_mirror == SelectSeq(mirrors0, LAMBDA m : m.investigation_id = investigation_id)
        channel_filter0 == IF channel_name_arg # 0
                           THEN SelectSeq(mirrors0, LAMBDA m : m.channel_name = channel_name_arg)
                           ELSE <<>>
        is_new == current_mirror = <<>>
        create == is_new /\ channel_filter0 = <<>>
        \* conversations_create(name=channel_name, is_private=private)
        new_name == IF channel_name_arg # 0 THEN channel_name_arg ELSE IncidentName(investigation_id)
        new_id == Len(slack.channels) + 1
        slack1 == IF create
                  THEN [slack EXCEPT !.channels = Append(@, [name |-> new_name, archived |-> FALSE])]
                  ELSE slack
        conversations == IF create
                         THEN Append(ic.conversations, [id |-> new_id, name |-> new_name])
                         ELSE ic.conversations
        need_bot_id == create /\ ic.bot_id = ""
        create_calls == IF create
                        THEN <<Call("conversations_create", new_id, investigation_id,
                                     IF mirror_to # "channel" THEN "private" ELSE "public")>>
                             \o (IF need_bot_id THEN <<Call("auth_test", 0, 0, BOT)>> ELSE <<>>)
                             \o <<Call("conversations_invite", new_id, 0, BOT)>>
                        ELSE <<>>
        bot_writes == IF need_bot_id THEN <<[bot_id |-> BOT]>> ELSE <<>>
        conversation_id == IF create THEN new_id
                           ELSE IF is_new THEN channel_filter0[1].channel_id
                           ELSE current_mirror[1].channel_id
        conversation_name == IF create THEN new_name
                             ELSE IF is_new THEN channel_filter0[1].channel_name
                             ELSE current_mirror[1].channel_name
        \* the existing mirror is popped from the list and updated
        mirrors1 == IF is_new THEN mirrors0 ELSE PopAt(mirrors0, IndexOf(mirrors0, current_mirror[1]))
        error == IF is_new THEN ""
                 ELSE IF mirror_to # "" /\ current_mirror[1].mirror_to # mirror_to
                      THEN "Cannot change the Slack channel type from Demisto."
                 ELSE IF channel_name_arg # 0 THEN "Cannot change the Slack channel name."
                 ELSE IF channel_topic_arg # <<>> THEN "Cannot change the Slack channel topic."
                 ELSE ""
        mirror0 == IF is_new
                   THEN new_mirror(conversation_id, conversation_name, investigation_id,
                                   mirror_type, mirror_direction, mirror_to, auto_close)
                   ELSE [current_mirror[1] EXCEPT
                            !.mirror_type = IF mirror_type # "" THEN mirror_type ELSE @,
                            !.auto_close = IF auto_close # "" THEN strtobool(auto_close) ELSE @,
                            !.mirror_direction = IF mirror_direction # "" THEN mirror_direction ELSE @,
                            !.mirrored = FALSE]
        \* the topic
        channel_filter == SelectSeq(mirrors1, LAMBDA m : m.channel_name = conversation_name)
        stored_topic == IF ~is_new THEN mirror0.channel_topic
                        ELSE IF channel_filter # <<>> THEN channel_filter[1].channel_topic
                        ELSE <<>>
        mirrored_investigations_ids ==
            [i \in DOMAIN channel_filter |-> IncidentName(channel_filter[i].investigation_id)]
        new_topic == mirrored_investigations_ids \o <<IncidentName(investigation_id)>>
        derive == channel_topic_arg = <<>>
                  /\ (stored_topic = <<>> \/ HasIncidentMarker(stored_topic))
                  /\ stored_topic # new_topic
        channel_topic == IF channel_topic_arg # <<>> THEN channel_topic_arg
                         ELSE IF derive THEN new_topic ELSE stored_topic
        set_topic == channel_topic_arg # <<>> \/ derive
        mirror == [mirror0 EXCEPT !.channel_topic = channel_topic]
        mirrors == Append(mirrors1, mirror)
    IN  IF error # ""
        THEN [error |-> error, writes |-> <<>>, calls |-> <<Call("return_error", 0, investigation_id, error)>>,
              slack |-> slack]
        ELSE [error |-> "",
              writes |-> bot_writes \o <<[mirrors |-> mirrors, conversations |-> conversations]>>,
              calls |-> create_calls
                        \o (IF set_topic
                            THEN <<Call("conversations_setTopic", conversation_id, investigation_id, "topic")>>
                            ELSE <<>>)
                        \o (IF kick_admin
                            THEN <<Call("conversations_leave", conversation_id, 0, "admin")>>
                            ELSE <<>>)
                        \o (IF create
                            THEN <<Call("chat_postMessage", conversation_id, investigation_id, "intro")>>
                            ELSE <<>>)
                        \o <<Call("results", conversation_id, investigation_id, "mirrored")>>,
              slack |-> slack1]

\* ------------------------------------------------------ check_for_mirrors
\* the users of the workspace; a user of the case system with another name
\* is not found in Slack
SlackUsers == {"U1", "U2"}

\* get_user_by_name(user_to_search, add_to_context=False): the cached user,
\* else the user of the workspace with that name, else {}
get_user_by_name(ic, user_to_search) ==
    IF \E i \in DOMAIN ic.users : ic.users[i].id = user_to_search
    THEN <<[id |-> user_to_search]>>
    ELSE IF user_to_search \in SlackUsers THEN <<[id |-> user_to_search]>>
    ELSE <<>>

\* invite_to_mirrored_channel(channel_id, users): the slack users found
RECURSIVE invite_to_mirrored_channel(_, _)
invite_to_mirrored_channel(ic, users) ==
    IF users = <<>> THEN <<>>
    ELSE get_user_by_name(ic, Head(users)) \o invite_to_mirrored_channel(ic, Tail(users))

\* invite_users_to_conversation(conversation_id, users_to_invite): answer is
\* the vendor's answer to conversations_invite, "ok", "already_in_channel"
\* (the loop continues) or another error, which the first call raises
invite_users_to_conversation(conversation_id, users_to_invite, answer) ==
    LET all == [i \in DOMAIN users_to_invite |->
                   Call("conversations_invite", conversation_id, 0, users_to_invite[i].id)]
    IN  IF answer \in {"ok", "already_in_channel"} \/ all = <<>>
        THEN [raised |-> FALSE, calls |-> all]
        ELSE [raised |-> TRUE, calls |-> <<all[1]>>]

\* `if mirror_type != 'none'` of check_for_mirrors
ShouldInviteAlways(mirror) == TRUE
ShouldInvite(mirror) == mirror.mirror_type # "none"

MirrorIsValid(mirror) ==
    mirror.mirror_to # "" /\ mirror.mirror_direction # "" /\ mirror.mirror_type # ""

\* the for loop of check_for_mirrors: i is the position of the iterator in
\* the list mirrors, which the body shortens by mirrors.pop
RECURSIVE check_loop(_, _, _, _, _, _)
check_loop(ic, host, i, mirrors, acc, calls) ==
    IF i > Len(mirrors)
    THEN [raised |-> FALSE, updated_mirrors |-> acc.updated_mirrors,
          updated_users |-> acc.updated_users, calls |-> calls]
    ELSE LET mirror == mirrors[i]
         IN  IF mirror.mirrored
             THEN check_loop(ic, host, i + 1, mirrors, acc, calls)
             ELSE LET popped == PopAt(mirrors, IndexOf(mirrors, mirror))
                      investigation_id == mirror.investigation_id
                      users == host.users[investigation_id]
                      found == IF ShouldInvite(mirror)
                               THEN invite_to_mirrored_channel(ic, users)
                               ELSE <<>>
                      invite == invite_users_to_conversation(mirror.channel_id, found, host.invite)
                      invited_users == IF invite.raised THEN <<>> ELSE found
                      mirror_call == Call("mirrorInvestigation", mirror.channel_id, investigation_id,
                                          mirror.mirror_type)
                  IN  IF MirrorIsValid(mirror) /\ investigation_id \in host.raises
                      THEN [raised |-> TRUE, updated_mirrors |-> acc.updated_mirrors,
                            updated_users |-> acc.updated_users, calls |-> calls \o <<mirror_call>>]
                      ELSE IF MirrorIsValid(mirror)
                      THEN check_loop(ic, host, i + 1, popped,
                               [updated_mirrors |-> Append(acc.updated_mirrors,
                                                           [mirror EXCEPT !.mirrored = TRUE]),
                                updated_users |-> acc.updated_users \o invited_users],
                               calls \o <<mirror_call>> \o invite.calls)
                      ELSE check_loop(ic, host, i + 1, popped, acc, calls)

\* check_for_mirrors() on the context ic; host.users[c] are the users that
\* demisto.mirrorInvestigation returns for case c, host.invite the vendor's
\* answer to conversations_invite, host.raises the cases for which
\* demisto.mirrorInvestigation raises; its exception leaves check_for_mirrors
check_for_mirrors_whole_context(ic, host) ==
    IF ic.mirrors = <<>>
    THEN [error |-> "", writes |-> <<>>, calls |-> <<>>]
    ELSE LET r == check_loop(ic, host, 1, ic.mirrors,
                             [updated_mirrors |-> <<>>, updated_users |-> <<>>], <<>>)
         IN  IF r.raised THEN [error |-> "exception", writes |-> <<>>, calls |-> r.calls]
             ELSE [error |-> "",
                   writes |-> <<[mirrors |-> r.updated_mirrors, users |-> r.updated_users,
                                 conversations |-> <<>>]>>,
                   calls |-> r.calls]

check_for_mirrors(ic, host) ==
    IF ic.mirrors = <<>>
    THEN [error |-> "", writes |-> <<>>, calls |-> <<>>]
    ELSE LET r == check_loop(ic, host, 1, ic.mirrors,
                             [updated_mirrors |-> <<>>, updated_users |-> <<>>], <<>>)
         IN  IF r.raised THEN [error |-> "exception", writes |-> <<>>, calls |-> r.calls]
             ELSE
             [error |-> "",
              writes |-> IF r.updated_mirrors = <<>> THEN <<>>
                         ELSE IF r.updated_users = <<>>
                              THEN <<[mirrors |-> r.updated_mirrors]>>
                              ELSE <<[mirrors |-> r.updated_mirrors, users |-> r.updated_users]>>,
              calls |-> r.calls]

\* ----------------------------------------------------------------- process
\* An entitlement is guid@incident_id|task_id; the model names it by a
\* number 1..MaxEnts and EntIncident gives the incident id embedded in it.
MaxEnts == 3
Entitlements == 1..MaxEnts
EntIncident(entitlement) == ((entitlement - 1) % MaxCases) + 1

DM_CHANNEL == -1

\* A text is [ent, words]: ent is the entitlement re.search(ENTITLEMENT_REGEX)
\* finds in it (0 when none), words the rest of the text
TextIsEmpty(text) == text.ent = 0 /\ text.words = ""

\* get_user_by_id_async: the cached user; the local user is unbound when the
\* cache is empty or lacks the id, and `if not user` then raises
get_user_by_id_async(ic, user_id) ==
    IF \E i \in DOMAIN ic.users : ic.users[i].id = user_id
    THEN [raised |-> FALSE, user |-> user_id]
    ELSE [raised |-> TRUE, user |-> ""]

\* check_and_handle_entitlement(text, user, thread_id)
check_and_handle_entitlement_keep(ic, text, user, thread_id) ==
    LET question_filter == SelectSeq(ic.questions, LAMBDA q : q.thread = thread_id)
    IN  IF text.ent # 0
        THEN [reply |-> THANK_YOU, writes |-> <<>>,
              calls |-> <<CallEnt("handleEntitlementForUser", 0, EntIncident(text.ent), user, text.ent)>>]
        ELSE IF ic.questions # <<>> /\ thread_id # 0 /\ question_filter # <<>>
        THEN LET question == question_filter[1]
             IN  [reply |-> question.reply,
                  writes |-> <<[questions |-> ic.questions]>>,
                  calls |-> <<CallEnt("handleEntitlementForUser", thread_id,
                                      EntIncident(question.entitlement), user, question.entitlement)>>]
        ELSE [reply |-> "", writes |-> <<>>, calls |-> <<>>]

check_and_handle_entitlement_thread_first(ic, text, user, thread_id) ==
    LET question_filter == SelectSeq(ic.questions, LAMBDA q : q.thread = thread_id)
    IN  IF ic.questions # <<>> /\ thread_id # 0 /\ question_filter # <<>>
        THEN LET question == question_filter[1]
                 i == IndexOf(ic.questions, question)
                 questions == [ic.questions EXCEPT ![i] = [@ EXCEPT !.remove = TRUE]]
             IN  [reply |-> question.reply,
                  writes |-> <<[questions |-> questions]>>,
                  calls |-> <<CallEnt("handleEntitlementForUser", thread_id,
                                      EntIncident(question.entitlement), user, question.entitlement)>>]
        ELSE IF text.ent # 0
        THEN [reply |-> THANK_YOU, writes |-> <<>>,
              calls |-> <<CallEnt("handleEntitlementForUser", 0, EntIncident(text.ent), user, text.ent)>>]
        ELSE [reply |-> "", writes |-> <<>>, calls |-> <<>>]

check_and_handle_entitlement(ic, text, user, thread_id) ==
    LET question_filter == SelectSeq(ic.questions, LAMBDA q : q.thread = thread_id)
    IN  IF text.ent # 0
        THEN [reply |-> THANK_YOU, writes |-> <<>>,
              calls |-> <<CallEnt("handleEntitlementForUser", 0, EntIncident(text.ent), user, text.ent)>>]
        ELSE IF ic.questions # <<>> /\ thread_id # 0 /\ question_filter # <<>>
        THEN LET question == question_filter[1]
                 i == IndexOf(ic.questions, question)
                 questions == [ic.questions EXCEPT ![i] = [@ EXCEPT !.remove = TRUE]]
             IN  [reply |-> question.reply,
                  writes |-> <<[questions |-> questions]>>,
                  calls |-> <<CallEnt("handleEntitlementForUser", thread_id,
                                      EntIncident(question.entitlement), user, question.entitlement)>>]
        ELSE [reply |-> "", writes |-> <<>>, calls |-> <<>>]

\* answer_question(text, entitlement, email)
answer_question(entitlement, user) ==
    <<CallEnt("handleEntitlementForUser", 0, EntIncident(entitlement), user, entitlement)>>

\* handle_text(client, investigation_id, text, user)
handle_text(investigation_id, channel_id, text, user) ==
    IF TextIsEmpty(text) THEN <<>>
    ELSE <<Call("addEntry", channel_id, investigation_id, user)>>

\* one iteration of `for mirror in mirror_filter` in process, for a mirror
\* the loop does not return on: mirrors is the local list
relay_one(mirrors, mirror, channel_id, text, user) ==
    LET popped == PopAt(mirrors, IndexOf(mirrors, mirror))
        activated == [mirror EXCEPT !.mirrored = TRUE]
        note == handle_text(mirror.investigation_id, channel_id, text, user)
    IN  IF mirror.mirrored
        THEN [mirrors |-> mirrors, writes |-> <<>>, calls |-> note]
        ELSE IF MirrorIsValid(mirror)
        THEN [mirrors |-> Append(popped, activated),
              writes |-> <<[mirrors |-> Append(popped, activated)]>>,
              calls |-> <<Call("mirrorInvestigation", mirror.channel_id, mirror.investigation_id,
                               mirror.mirror_type)>> \o note]
        ELSE [mirrors |-> popped, writes |-> <<>>, calls |-> note]

RelayBlockedByDirection(mirror) == mirror.mirror_direction = "FromDemisto"
RelayBlocked(mirror) == mirror.mirror_direction = "FromDemisto" \/ mirror.mirror_type = "none"

\* the loop over mirror_filter; returned is TRUE when the loop left process
\* by `return`
RECURSIVE relay_loop(_, _, _, _, _, _, _)
relay_loop(mirror_filter, mirrors, channel_id, text, user, writes, calls) ==
    IF mirror_filter = <<>>
    THEN [returned |-> FALSE, writes |-> writes, calls |-> calls]
    ELSE IF RelayBlocked(Head(mirror_filter))
    THEN [returned |-> TRUE, writes |-> writes, calls |-> calls]
    ELSE LET r == relay_one(mirrors, Head(mirror_filter), channel_id, text, user)
         IN  relay_loop(Tail(mirror_filter), r.mirrors, channel_id, text, user,
                        writes \o r.writes, calls \o r.calls)

\* the channel branch of process, on the context read at that point
relay(ic, channel_id, text, user) ==
    LET mirror_filter == SelectSeq(ic.mirrors, LAMBDA m : m.channel_id = channel_id)
    IN  IF ic = EmptyContext \/ mirror_filter = <<>>
        THEN [returned |-> TRUE, writes |-> <<>>, calls |-> <<>>]
        ELSE relay_loop(mirror_filter, ic.mirrors, channel_id, text, user, <<>>, <<>>)

\* handle_dm(user, text, client): the direct message is passed to the case
\* system, then conversations_open(users=user.get(id)) is called with the
\* builtin id as key, that is with users=None; open_ok is the vendor's answer
\* host holds the answers of the case system and the vendor: demisto_user
\* (findUser found the sender), allow_incidents (the parameter) and open_ok;
\* a text that asks for a new incident goes to translate_create unless the
\* sender is unknown and the parameter is off
CREATE_INCIDENT == "create incident name=x"
NOT_ALLOWED == "You are not allowed to create incidents."
CREATED == "Successfully created incident x."

handle_dm(user, text, host) ==
    LET asks == text.words = CREATE_INCIDENT
        refused == ~host.demisto_user /\ ~host.allow_incidents
        data == IF ~asks THEN "dm reply" ELSE IF refused THEN NOT_ALLOWED ELSE CREATED
        handled == IF ~asks THEN <<Call("directMessage", DM_CHANNEL, 0, user)>>
                   ELSE <<Call("findUser", DM_CHANNEL, 0, user)>>
                        \o (IF refused THEN <<>>
                            ELSE <<Call("createIncidents", DM_CHANNEL, 0, user)>>)
    IN  [raised |-> ~host.open_ok,
         calls |-> handled \o <<Call("conversations_open", DM_CHANNEL, 0, "None")>>
                   \o (IF host.open_ok THEN <<Call("chat_postMessage", DM_CHANNEL, 0, data)>>
                       ELSE <<>>)]

\* handle_listen_error(error): demisto.error and updateModuleHealth(error)
handle_listen_error_logged(error) ==
    [calls |-> <<Call("handle_listen_error", 0, 0, error)>>, health |-> "unchanged"]

handle_listen_error(error) ==
    [calls |-> <<Call("handle_listen_error", 0, 0, error)>>, health |-> "degraded"]

ACTION_REPLY == "Thank you for your reply."

\* process(client, req) on the context ic; health is the effect on the module
\* health: "degraded" (handle_listen_error), "clear" (updateModuleHealth(""))
\* or "unchanged" (a return inside the try block)
process(ic, event, host) ==
    IF event.type = "error"
    THEN [writes |-> <<>>, calls |-> handle_listen_error("error event").calls,
          health |-> handle_listen_error("error event").health]
    ELSE
    LET looked == get_user_by_id_async(ic, event.user)
        ent == IF event.type = "action"
               THEN [reply |-> ACTION_REPLY, writes |-> <<>>,
                     calls |-> <<Call("users_info", 0, 0, event.user)>>
                               \o answer_question(event.action_ent, event.user)]
               ELSE check_and_handle_entitlement(ic, event.text, event.user, event.thread)
        ic1 == ApplyWrites(ic, ent.writes)
        dm == handle_dm(event.user, event.text, host)
        rl == relay(ic1, event.channel, event.text, event.user)
    IN  IF event.type # "action" /\ looked.raised
        THEN [writes |-> <<>>, calls |-> handle_listen_error("exception").calls,
              health |-> handle_listen_error("exception").health]
        ELSE IF event.bot
        THEN [writes |-> ent.writes, calls |-> ent.calls, health |-> "unchanged"]
        ELSE IF ent.reply # ""
        THEN [writes |-> ent.writes,
              calls |-> ent.calls \o <<CallEnt("chat_postMessage", event.thread, 0, ent.reply, 0)>>,
              health |-> "clear"]
        ELSE IF event.channel = DM_CHANNEL
        THEN [writes |-> ent.writes,
              calls |-> ent.calls \o dm.calls
                        \o (IF dm.raised THEN handle_listen_error("exception").calls ELSE <<>>),
              health |-> IF dm.raised THEN handle_listen_error("exception").health ELSE "clear"]
        ELSE [writes |-> ent.writes \o rl.writes,
              calls |-> ent.calls \o rl.calls,
              health |-> IF rl.returned THEN "unchanged" ELSE "clear"]

\* ------------------------------------------------------------ the commands
\* find_mirror_by_investigation(): the mirror of the current case, <<>> if none
find_mirror_by_investigation(ic, investigation_id) ==
    LET investigation_filter == SelectSeq(ic.mirrors, LAMBDA m : m.investigation_id = investigation_id)
    IN  IF investigation_filter = <<>> THEN <<>> ELSE <<investigation_filter[1]>>

CHANNEL_NOT_FOUND ==
    "Channel not found - the Demisto app needs to be a member of the channel in order to look it up."

\* get_conversation_by_name(conversation_name): the cached conversation of
\* that name, else the channel of the workspace with that name, which is then
\* added to the cache
get_conversation_by_name(ic, conversation_name, slack) ==
    LET conversation_filter == SelectSeq(ic.conversations, LAMBDA c : c.name = conversation_name)
        listed == {i \in DOMAIN slack.channels : slack.channels[i].name = conversation_name}
        first == CHOOSE i \in listed : \A j \in listed : i <= j
        conversation == [id |-> first, name |-> conversation_name]
    IN  IF conversation_filter # <<>>
        THEN [found |-> <<conversation_filter[1]>>, writes |-> <<>>, calls |-> <<>>]
        ELSE IF listed # {}
        THEN [found |-> <<conversation>>,
              writes |-> <<[conversations |-> Append(ic.conversations, conversation)]>>,
              calls |-> <<Call("conversations_list", 0, 0, "list")>>]
        ELSE [found |-> <<>>, writes |-> <<>>, calls |-> <<Call("conversations_list", 0, 0, "list")>>]

\* the commands that take the channel from the argument or from the mirror of
\* the current case: channel_arg is 0 when the argument is absent.  edit is
\* the change the command makes to its mirror, call the vendor call it ends
\* with.
set_channel_topic_resetting(ic, investigation_id, channel_arg, topic, slack) ==
    LET found == find_mirror_by_investigation(ic, investigation_id)
        mirror == found[1]
        mirrors == Append(PopAt(ic.mirrors, IndexOf(ic.mirrors, mirror)),
                          [mirror EXCEPT !.channel_topic = topic, !.mirrored = FALSE])
    IN  IF channel_arg = 0 /\ found # <<>>
        THEN [error |-> "", writes |-> <<[mirrors |-> mirrors]>>,
              calls |-> <<Call("conversations_setTopic", mirror.channel_id, investigation_id, "topic"),
                          Call("results", mirror.channel_id, investigation_id, "Topic successfully set.")>>,
              slack |-> slack]
        ELSE [error |-> CHANNEL_NOT_FOUND, writes |-> <<>>,
              calls |-> <<Call("return_error", 0, investigation_id, CHANNEL_NOT_FOUND)>>, slack |-> slack]

set_channel_topic(ic, investigation_id, channel_arg, topic, slack) ==
    LET found == find_mirror_by_investigation(ic, investigation_id)
        conv == get_conversation_by_name(ic, channel_arg, slack)
        mirror == found[1]
        mirrors == Append(PopAt(ic.mirrors, IndexOf(ic.mirrors, mirror)),
                          [mirror EXCEPT !.channel_topic = topic])
    IN  IF channel_arg = 0
        THEN IF found = <<>>
             THEN [error |-> CHANNEL_NOT_FOUND, writes |-> <<>>,
                   calls |-> <<Call("return_error", 0, investigation_id, CHANNEL_NOT_FOUND)>>, slack |-> slack]
             ELSE [error |-> "", writes |-> <<[mirrors |-> mirrors]>>,
                   calls |-> <<Call("conversations_setTopic", mirror.channel_id, investigation_id, "topic"),
                               Call("results", mirror.channel_id, investigation_id, "Topic successfully set.")>>,
                   slack |-> slack]
        ELSE IF conv.found = <<>>
             THEN [error |-> CHANNEL_NOT_FOUND, writes |-> conv.writes,
                   calls |-> conv.calls \o <<Call("return_error", 0, investigation_id, CHANNEL_NOT_FOUND)>>,
                   slack |-> slack]
             ELSE [error |-> "", writes |-> conv.writes,
                   calls |-> conv.calls
                             \o <<Call("conversations_setTopic", conv.found[1].id, investigation_id, "topic"),
                                  Call("results", conv.found[1].id, investigation_id, "Topic successfully set.")>>,
                   slack |-> slack]

\* rename_channel()
rename_channel(ic, investigation_id, channel_arg, new_name, slack) ==
    LET found == find_mirror_by_investigation(ic, investigation_id)
        conv == get_conversation_by_name(ic, channel_arg, slack)
        mirror == found[1]
        mirrors == Append(PopAt(ic.mirrors, IndexOf(ic.mirrors, mirror)),
                          [mirror EXCEPT !.channel_name = new_name])
        Renamed(id) == [slack EXCEPT !.channels[id].name = new_name]
    IN  IF channel_arg = 0
        THEN IF found = <<>>
             THEN [error |-> CHANNEL_NOT_FOUND, writes |-> <<>>,
                   calls |-> <<Call("return_error", 0, investigation_id, CHANNEL_NOT_FOUND)>>, slack |-> slack]
             ELSE [error |-> "", writes |-> <<[mirrors |-> mirrors]>>,
                   calls |-> <<Call("conversations_rename", mirror.channel_id, investigation_id, "name"),
                               Call("results", mirror.channel_id, investigation_id, "Channel renamed successfully.")>>,
                   slack |-> Renamed(mirror.channel_id)]
        ELSE IF conv.found = <<>>
             THEN [error |-> CHANNEL_NOT_FOUND, writes |-> conv.writes,
                   calls |-> conv.calls \o <<Call("return_error", 0, investigation_id, CHANNEL_NOT_FOUND)>>,
                   slack |-> slack]
             ELSE [error |-> "", writes |-> conv.writes,
                   calls |-> conv.calls
                             \o <<Call("conversations_rename", conv.found[1].id, investigation_id, "name"),
                                  Call("results", conv.found[1].id, investigation_id, "Channel renamed successfully.")>>,
                   slack |-> Renamed(conv.found[1].id)]

\* close_channel()
close_channel(ic, investigation_id, channel_arg, slack) ==
    LET found == find_mirror_by_investigation(ic, investigation_id)
        conv == get_conversation_by_name(ic, channel_arg, slack)
        channel_id == found[1].channel_id
        mirrors == [i \in DOMAIN ic.mirrors |->
                       IF ic.mirrors[i].channel_id = channel_id
                       THEN [ic.mirrors[i] EXCEPT !.remove = TRUE]
                       ELSE ic.mirrors[i]]
        channel_mirrors == SelectSeq(ic.mirrors, LAMBDA m : m.channel_id = channel_id)
        unmirror == [i \in DOMAIN channel_mirrors |->
                        Call("mirrorInvestigation", channel_id, channel_mirrors[i].investigation_id, "none")]
        Archived(id) == [slack EXCEPT !.channels[id].archived = TRUE]
    IN  IF channel_arg = 0
        THEN IF found = <<>>
             THEN [error |-> CHANNEL_NOT_FOUND, writes |-> <<>>,
                   calls |-> <<Call("return_error", 0, investigation_id, CHANNEL_NOT_FOUND)>>, slack |-> slack]
             ELSE [error |-> "", writes |-> <<[mirrors |-> mirrors]>>,
                   calls |-> unmirror
                             \o <<Call("conversations_archive", channel_id, investigation_id, "archive"),
                                  Call("results", channel_id, investigation_id, "Channel successfully archived.")>>,
                   slack |-> Archived(channel_id)]
        ELSE IF conv.found = <<>>
             THEN [error |-> CHANNEL_NOT_FOUND, writes |-> conv.writes,
                   calls |-> conv.calls \o <<Call("return_error", 0, investigation_id, CHANNEL_NOT_FOUND)>>,
                   slack |-> slack]
             ELSE [error |-> "", writes |-> conv.writes,
                   calls |-> conv.calls
                             \o <<Call("conversations_archive", conv.found[1].id, investigation_id, "archive"),
                                  Call("results", conv.found[1].id, investigation_id, "Channel successfully archived.")>>,
                   slack |-> Archived(conv.found[1].id)]

\* get_user(): get_user_by_name(user) caches the user it had to look up
get_user(ic, user) ==
    IF \E i \in DOMAIN ic.users : ic.users[i].id = user
    THEN [error |-> "", writes |-> <<>>, calls |-> <<Call("return_outputs", 0, 0, user)>>]
    ELSE IF user \in SlackUsers
    THEN [error |-> "", writes |-> <<[users |-> Append(ic.users, [id |-> user])]>>,
          calls |-> <<Call("users_list", 0, 0, user), Call("return_outputs", 0, 0, user)>>]
    ELSE [error |-> "User not found", writes |-> <<>>,
          calls |-> <<Call("users_list", 0, 0, user), Call("return_error", 0, 0, "User not found")>>]

\* ------------------------------------------------------------ slack_send
\* save_entitlement(entitlement, thread, reply, expiry, default_response)
save_entitlement_without_expiry(ic, entitlement, thread, reply, expiry, default_response) ==
    <<[questions |-> Append(ic.questions,
                            [thread |-> thread, entitlement |-> entitlement, reply |-> reply,
                             expiry |-> "", default_response |-> default_response,
                             remove |-> FALSE])]>>

save_entitlement(ic, entitlement, thread, reply, expiry, default_response) ==
    <<[questions |-> Append(ic.questions,
                            [thread |-> thread, entitlement |-> entitlement, reply |-> reply,
                             expiry |-> expiry, default_response |-> default_response,
                             remove |-> FALSE])]>>

INCIDENT_OPENED == "incidentOpened"
ONE_DESTINATION == "Only one destination can be provided."
NO_DESTINATION == "Either a user, group or channel must be provided."
\* the parameter incidentNotificationChannel: a name no channel has
DEDICATED_CHANNEL == -2

\* the vendor errors that mean the bot is not in the destination
BOT_NOT_IN_CHANNEL == {"not_in_channel", "channel_not_found"}

\* send_message(destinations, ...): first and second are the vendor's answers
\* to the first and to the second chat_postMessage
send_message_retrying(ic, destination, first, second) ==
    LET post == Call("chat_postMessage", destination, 0, "message")
        bot_calls == (IF ic.bot_id = "" THEN <<Call("auth_test", 0, 0, BOT)>> ELSE <<>>)
                     \o <<Call("conversations_invite", destination, 0, BOT)>>
    IN  IF first = "ok" THEN [sent |-> TRUE, calls |-> <<post>>]
        ELSE [sent |-> second = "ok", calls |-> <<post>> \o bot_calls \o <<post>>]

send_message(ic, destination, first, second) ==
    LET post == Call("chat_postMessage", destination, 0, "message")
        bot_calls == (IF ic.bot_id = "" THEN <<Call("auth_test", 0, 0, BOT)>> ELSE <<>>)
                     \o <<Call("conversations_invite", destination, 0, BOT)>>
    IN  IF first = "ok" THEN [sent |-> TRUE, calls |-> <<post>>]
        ELSE IF first \notin BOT_NOT_IN_CHANNEL
        THEN [sent |-> FALSE, calls |-> <<post>>]
        ELSE [sent |-> second = "ok", calls |-> <<post>> \o bot_calls \o <<post>>]

\* send_file(destinations, file_dict, integration_context, thread_id): first
\* and second are the vendor's answers to the first and second files_upload
send_file(ic, destination, first, second) ==
    LET upload == Call("files_upload", destination, 0, "file")
        bot_calls == (IF ic.bot_id = "" THEN <<Call("auth_test", 0, 0, BOT)>> ELSE <<>>)
                     \o <<Call("conversations_invite", destination, 0, BOT)>>
    IN  IF first = "ok" THEN [sent |-> TRUE, calls |-> <<upload>>]
        ELSE IF first \notin BOT_NOT_IN_CHANNEL
        THEN [sent |-> FALSE, calls |-> <<upload>>]
        ELSE [sent |-> second = "ok", calls |-> <<upload>> \o bot_calls \o <<upload>>]

\* slack_send_request(to, channel, group, ...) up to the send: the
\* destination it finds (to is "" when absent, channel and group 0), the
\* lookups it makes and what they cache
slack_send_request(ic, to, channel, group, slack) ==
    LET user == get_user(ic, to)
        user_writes == IF to # "" THEN user.writes ELSE <<>>
        user_calls == IF to # "" THEN SelectSeq(user.calls, LAMBDA c : c.call = "users_list") ELSE <<>>
        to_found == to # "" /\ user.error = ""
        ic1 == ApplyWrites(ic, user_writes)
        destination_name == IF channel # 0 THEN channel ELSE group
        mirrored_channel_filter ==
            SelectSeq(ic.mirrors, LAMBDA m : IncidentName(m.investigation_id) = destination_name)
        conv == get_conversation_by_name(ic1, destination_name, slack)
        by_name == ~to_found /\ destination_name # 0
        use_conv == by_name /\ mirrored_channel_filter = <<>>
        lookup_writes == user_writes \o (IF use_conv THEN conv.writes ELSE <<>>)
        lookup_calls == user_calls
                        \o (IF to_found THEN <<Call("conversations_open", DM_CHANNEL, 0, to)>> ELSE <<>>)
                        \o (IF use_conv THEN conv.calls ELSE <<>>)
    IN  [error |-> IF use_conv /\ conv.found = <<>> THEN "Could not find the Slack conversation"
                   ELSE IF ~to_found /\ ~by_name THEN "Could not find any destination to send to."
                   ELSE "",
         destination |-> IF to_found THEN DM_CHANNEL
                         ELSE IF mirrored_channel_filter # <<>> THEN mirrored_channel_filter[1].channel_id
                         ELSE IF use_conv /\ conv.found # <<>> THEN conv.found[1].id
                         ELSE 0,
         writes |-> lookup_writes,
         calls |-> lookup_calls]

\* slack_send(): args holds to ("" when absent), channel and group (0 when
\* absent), messageType, footer (originalMessage contains MESSAGE_FOOTER),
\* severity_low (severity below the threshold) and the message msg:
\* [ent, json, reply], ent the entitlement the regex finds in it (0 if none),
\* json whether it parses as JSON, reply the reply it carries
\* the test that stops the loop of mirrored messages: the entry is a
\* mirrored one and its original message carries MESSAGE_FOOTER
from_slack_ignored(args) == FALSE

from_slack(args) == args.messageType = MIRROR_TYPE /\ args.footer

slack_send(ic, args, slack, first, second) ==
    LET Err(msg, writes, calls) ==
            [error |-> msg, writes |-> writes, calls |-> calls \o <<Call("return_error", 0, 0, msg)>>,
             slack |-> slack]
        original_channel == args.channel
        notification == original_channel = 0 /\ args.messageType = INCIDENT_OPENED
        channel == IF notification
                   THEN (IF args.severity_low THEN 0 ELSE DEDICATED_CHANNEL)
                   ELSE original_channel
        entitlement == IF args.msg.ent # 0 /\ args.msg.json THEN args.msg.ent ELSE 0
        request == slack_send_request(ic, args.to, channel, args.group, slack)
        ic2 == ApplyWrites(ic, request.writes)
        sm == send_message(ic, request.destination, first, second)
        thread == slack.ts + 1
    IN  IF from_slack(args)
        THEN [error |-> "", writes |-> <<>>, calls |-> <<>>, slack |-> slack]
        ELSE IF (args.to # "" /\ args.group # 0) \/ (args.to # "" /\ original_channel # 0)
        THEN Err(ONE_DESTINATION, <<>>, <<>>)
        ELSE IF args.to = "" /\ args.group = 0 /\ channel = 0
        THEN Err(NO_DESTINATION, <<>>, <<>>)
        ELSE IF request.error # ""
        THEN Err(request.error, request.writes, request.calls)
        ELSE IF ~sm.sent
        THEN Err("SlackApiError", request.writes, request.calls \o sm.calls)
        ELSE [error |-> "",
              writes |-> request.writes
                         \o (IF entitlement # 0
                             THEN save_entitlement(ic2, entitlement, thread, args.msg.reply,
                                                   args.msg.expiry, args.msg.default_response)
                             ELSE <<>>),
              calls |-> request.calls \o sm.calls
                        \o <<Call("results", request.destination, 0, "sent")>>,
              slack |-> [slack EXCEPT !.ts = thread]]

\* slack_send_file(): without to, channel and group the file goes to the
\* channel of the current case's mirror
slack_send_file(ic, investigation_id, args, slack, first, second) ==
    LET Err(msg, writes, calls) ==
            [error |-> msg, writes |-> writes, calls |-> calls \o <<Call("return_error", 0, 0, msg)>>,
             slack |-> slack]
        none_given == args.to = "" /\ args.channel = 0 /\ args.group = 0
        mirror == find_mirror_by_investigation(ic, investigation_id)
        channel == IF none_given /\ mirror # <<>> THEN mirror[1].channel_name ELSE args.channel
        request == slack_send_request(ic, args.to, channel, args.group, slack)
        sf == send_file(ic, request.destination, first, second)
    IN  IF args.to = "" /\ channel = 0 /\ args.group = 0
        THEN Err(NO_DESTINATION, <<>>, <<>>)
        ELSE IF request.error # ""
        THEN Err(request.error, request.writes, request.calls)
        ELSE IF ~sf.sent
        THEN Err("SlackApiError", request.writes, request.calls \o sf.calls)
        ELSE [error |-> "", writes |-> request.writes,
              calls |-> request.calls \o sf.calls
                        \o <<Call("results", request.destination, 0, "File sent to Slack successfully.")>>,
              slack |-> [slack EXCEPT !.ts = @ + 1]]

\* ================================================================ state
VARIABLES
    integration_context,  \* the Context Store: mirrors, questions, users, conversations, bot_id
    slack,                \* the vendor: the channels created and the number of messages sent
    module_health,        \* the health reported by demisto.updateModuleHealth ("" is clear)
    last,                 \* the handler that ran last and its inputs
    calls,                \* the calls the last handler made to the vendor and the case system
    thread_resolutions,   \* per thread, the handleEntitlementForUser calls made for its Question
    steps,                \* the number of handler runs so far
    inflight,             \* per concurrent writer, its run: the context it read, and whether it wrote
    runs,                 \* the number of concurrent runs started so far
    listener,             \* start_listening: whether slack_loop listens, and what became of long_running_loop
    pure                  \* the helper function under study: its name, its arguments and what it returned

vars ==
    <<integration_context, slack, module_health, last, calls, thread_resolutions, steps,
      inflight, runs, listener, pure>>

\* no helper function is under study
NoPure == [fn |-> "none"]

\* the concurrent writers: two handlers that run at the same time
Writers == {1, 2}

Idle ==
    [op |-> "idle", inv |-> 0, ent |-> 0, thread |-> 0, snap |-> EmptyContext, done |-> FALSE]

Threads == 1..MaxTs

NoEvent ==
    [type |-> "none", bot |-> FALSE, text |-> [ent |-> 0, words |-> ""], user |-> "",
     channel |-> 0, thread |-> 0, action_ent |-> 0]

\* demisto.args() of a command called without arguments
NoArgs ==
    [type |-> Absent, autoclose |-> Absent, direction |-> Absent, mirrorTo |-> Absent,
     channelName |-> 0, channelTopic |-> <<>>, kickAdmin |-> Absent]

\* what `last` records of a handler run: its name, the current case (0 if
\* none), the event of process, the answers of the case system and the
\* vendor to check_for_mirrors, the arguments of a command, the vendor's
\* answers to its sends and the message of the return_error that ended it
\* ("" if none did)
Ran(name, investigation_id, event, user_list, answer) ==
    [op |-> name, inv |-> investigation_id, event |-> event, user_list |-> user_list,
     invite |-> answer, args |-> NoArgs, answers |-> <<>>, error |-> ""]

InitState ==
    /\ integration_context = EmptyContext
    /\ slack = [channels |-> <<>>, ts |-> 0]
    /\ module_health = ""
    /\ last = Ran("init", 0, NoEvent, <<>>, "")
    /\ calls = <<>>
    /\ thread_resolutions = [t \in Threads |-> 0]
    /\ steps = 0
    /\ inflight = [w \in Writers |-> Idle]
    /\ runs = 0
    /\ listener = [listening |-> FALSE, poller |-> "none"]

Init == InitState /\ pure = NoPure

\* the effect of a handler result r on the store and the vendor
Commit(ran, r) ==
    /\ steps < MaxSteps
    /\ steps' = steps + 1
    /\ integration_context' = ApplyWrites(integration_context, r.writes)
    /\ slack' = r.slack
    /\ calls' = r.calls
    /\ last' = [ran EXCEPT !.error = IF "error" \in DOMAIN r THEN r.error ELSE ""]
    /\ UNCHANGED <<inflight, runs, listener, pure>>

\* ---------------------------------------------------- inputs of the model
\* the arguments of mirror_investigation the mirror lifecycle is explored with
MirrorArgs ==
    {NoArgs,
     [NoArgs EXCEPT !.type = "none"],
     [NoArgs EXCEPT !.type = ""],
     [NoArgs EXCEPT !.direction = "FromDemisto"],
     [NoArgs EXCEPT !.channelName = IncidentName(1)]}

\* the users of a case that demisto.mirrorInvestigation returns
UserLists == {<<>>, <<"U1">>, <<"ghost", "U2">>}

InviteAnswers == {"ok", "already_in_channel", "error"}

CUSTOM_TOPIC == <<0>>
RENAMED == -1

\* a message without entitlement in a channel, outside any thread
ChannelMessages ==
    {[NoEvent EXCEPT !.type = "message", !.text = [ent |-> 0, words |-> w], !.user = "U1",
                     !.channel = c] :
        w \in {"", "hi"}, c \in ChannelIds}

\* --------------------------------------------------------------- actions
MirrorInvestigation(Args) ==
    \E investigation_id \in Cases, args \in Args :
        LET r == mirror_investigation(integration_context, investigation_id, args, slack)
        IN  /\ Len(r.slack.channels) <= MaxChannels
            \* the vendor refuses to create a channel under a name in use
            /\ \A i \in DOMAIN slack.channels :
                   \A j \in DOMAIN r.slack.channels :
                       j > Len(slack.channels) => r.slack.channels[j].name # slack.channels[i].name
            /\ Commit([Ran("mirror_investigation", investigation_id, NoEvent, <<>>, "")
                          EXCEPT !.args = args], r)
            /\ UNCHANGED <<module_health, thread_resolutions>>

CheckForMirrors ==
    \E user_list \in UserLists, answer \in InviteAnswers :
        LET host == [users |-> [c \in Cases |-> user_list], invite |-> answer, raises |-> {}]
            r == check_for_mirrors(integration_context, host)
        IN  /\ Commit(Ran("check_for_mirrors", 0, NoEvent, user_list, answer),
                      [writes |-> r.writes, calls |-> r.calls, slack |-> slack])
            /\ UNCHANGED <<module_health, thread_resolutions>>

\* a pass of the poller in which the case system refuses the mirror of one
\* case (demisto.mirrorInvestigation raises for it) or of none (case 0)
CheckForMirrorsRaising ==
    \E refused \in {0} \cup Cases, answer \in {"ok", "error"} :
        LET host == [users |-> [c \in Cases |-> <<"U1">>], invite |-> answer,
                     raises |-> {refused} \ {0}]
            r == check_for_mirrors(integration_context, host)
        IN  /\ Commit(Ran("check_for_mirrors", refused, NoEvent, <<"U1">>, answer),
                      [error |-> r.error, writes |-> r.writes, calls |-> r.calls, slack |-> slack])
            /\ UNCHANGED <<module_health, thread_resolutions>>

\* the handleEntitlementForUser calls of a handler that resolve the Question
\* of thread t
ThreadCalls(cs, t) ==
    Len(SelectSeq(cs, LAMBDA c : c.call = "handleEntitlementForUser" /\ c.chan = t))

Process(Events) ==
    \E event \in Events, open_ok \in BOOLEAN, demisto_user \in BOOLEAN, allow_incidents \in BOOLEAN :
        LET host == [open_ok |-> open_ok, demisto_user |-> demisto_user,
                     allow_incidents |-> allow_incidents]
            asks == event.type = "message" /\ event.channel = DM_CHANNEL
                    /\ event.text.words = CREATE_INCIDENT
            r == process(integration_context, event, host)
        IN  /\ (event.type = "error" \/ event.channel # DM_CHANNEL) => open_ok
            \* the answers about incidents are asked for by handle_dm only
            /\ ~asks => (~demisto_user /\ ~allow_incidents)
            /\ Commit([Ran("process", 0, event, <<>>, "") EXCEPT
                          !.answers = IF asks
                                      THEN <<IF demisto_user THEN "known" ELSE "unknown",
                                             IF allow_incidents THEN "allowed" ELSE "forbidden">>
                                      ELSE <<>>],
                      [writes |-> r.writes, calls |-> r.calls, slack |-> slack])
            /\ module_health' = IF r.health = "degraded" THEN "error"
                                 ELSE IF r.health = "clear" THEN ""
                                 ELSE module_health
            /\ thread_resolutions' =
                   [t \in Threads |->
                       IF thread_resolutions[t] + ThreadCalls(r.calls, t) > 2 THEN 2
                       ELSE thread_resolutions[t] + ThreadCalls(r.calls, t)]

SetChannelTopic ==
    \E investigation_id \in Cases, channel_arg \in {0, IncidentName(1)} :
        LET r == set_channel_topic(integration_context, investigation_id, channel_arg, CUSTOM_TOPIC, slack)
        IN  /\ Commit(Ran("set_channel_topic", investigation_id, NoEvent, <<>>, ""), r)
            /\ UNCHANGED <<module_health, thread_resolutions>>

RenameChannel ==
    \E investigation_id \in Cases, channel_arg \in {0, IncidentName(1)} :
        LET r == rename_channel(integration_context, investigation_id, channel_arg, RENAMED, slack)
        IN  /\ Commit(Ran("rename_channel", investigation_id, NoEvent, <<>>, ""), r)
            /\ UNCHANGED <<module_health, thread_resolutions>>

CloseChannel ==
    \E investigation_id \in Cases, channel_arg \in {0, IncidentName(1)} :
        LET r == close_channel(integration_context, investigation_id, channel_arg, slack)
        IN  /\ Commit(Ran("close_channel", investigation_id, NoEvent, <<>>, ""), r)
            /\ UNCHANGED <<module_health, thread_resolutions>>

GetUser ==
    \E user \in {"U1"} :
        LET r == get_user(integration_context, user)
        IN  /\ Commit(Ran("get_user", 0, NoEvent, <<>>, ""),
                      [writes |-> r.writes, calls |-> r.calls, slack |-> slack])
            /\ UNCHANGED <<module_health, thread_resolutions>>

\* the mirror lifecycle: the commands on mirrors, the poller pass and the
\* channel messages, each handler run to its end before the next starts
Next ==
    \/ MirrorInvestigation(MirrorArgs)
    \/ CheckForMirrors
    \/ Process(ChannelMessages)
    \/ SetChannelTopic
    \/ RenameChannel
    \/ CloseChannel
    \/ GetUser

Spec == Init /\ [][Next]_vars

\* ------------------------------------------------- questions and replies
STORED_REPLY == "Thanks"
STORED_EXPIRY == "2026-12-31 00:00:00"
STORED_DEFAULT == "NoResponse"

NoSend ==
    [to |-> "", channel |-> 0, group |-> 0, messageType |-> "", footer |-> FALSE,
     severity_low |-> FALSE, msg |-> [ent |-> 0, json |-> FALSE, reply |-> "", expiry |-> "", default_response |-> ""]]

\* send-notification to a user, the message a JSON that carries an
\* entitlement and the reply to give, or a plain text
SendArgs ==
    {[NoSend EXCEPT !.to = "U1",
                    !.msg = [ent |-> e, json |-> TRUE, reply |-> STORED_REPLY,
                             expiry |-> STORED_EXPIRY, default_response |-> STORED_DEFAULT]] :
        e \in Entitlements}
    \cup {[NoSend EXCEPT !.to = "U1"]}

\* a reply in a thread of the direct-message channel, from a person or
\* echoed by a bot, and an interactive action on a question's button
EntEvents ==
    {[NoEvent EXCEPT !.type = "message", !.text = [ent |-> 0, words |-> "yes"], !.user = u,
                     !.channel = DM_CHANNEL, !.thread = t, !.bot = b] :
        u \in SlackUsers, t \in Threads, b \in BOOLEAN}
    \cup {[NoEvent EXCEPT !.type = "action", !.user = "U1", !.channel = DM_CHANNEL,
                          !.action_ent = e] : e \in Entitlements}

\* a message of a person whose text itself carries an entitlement, in the
\* direct-message channel, inside a thread or outside any
EntTextEvents ==
    {[NoEvent EXCEPT !.type = "message", !.text = [ent |-> e, words |-> "yes"], !.user = "U1",
                     !.channel = DM_CHANNEL, !.thread = t] :
        e \in Entitlements, t \in {0} \cup Threads}

SlackSend(Args) ==
    \E args \in Args :
        LET r == slack_send(integration_context, args, slack, "ok", "ok")
        IN  /\ slack.ts < MaxTs
            /\ Commit([Ran("slack_send", 0, [NoEvent EXCEPT !.action_ent = args.msg.ent], <<>>, "")
                          EXCEPT !.args = args, !.answers = <<"ok", "ok">>], r)
            /\ UNCHANGED <<module_health, thread_resolutions>>

\* questions: the notifications that ask, the replies and the actions that
\* answer, each handler run to its end before the next starts
EntNext ==
    \/ SlackSend(SendArgs)
    \/ Process(EntEvents)
    \/ Process(EntTextEvents)
    \/ GetUser

EntSpec == Init /\ [][EntNext]_vars

\* ------------------------------------------------- sends and their retry
\* the destinations a send is given: a user, a channel, a group, and more
\* than one of them
DestArgs ==
    {[NoSend EXCEPT !.to = "U1"],
     [NoSend EXCEPT !.channel = IncidentName(1)],
     [NoSend EXCEPT !.group = IncidentName(1)],
     [NoSend EXCEPT !.channel = IncidentName(1), !.group = IncidentName(1)],
     [NoSend EXCEPT !.to = "U1", !.channel = IncidentName(1)],
     [NoSend EXCEPT !.to = "U1", !.group = IncidentName(1)],
     [NoSend EXCEPT !.to = "U1", !.channel = IncidentName(1), !.group = IncidentName(1)]}

\* the destinations of send-file: none (the channel of the case's mirror)
\* or a channel
FileArgs == {NoSend, [NoSend EXCEPT !.channel = IncidentName(1)]}

\* the vendor's answers to the first send and to the one after the bot's
\* invitation; the second is asked for only after a first that says the
\* bot is not in the channel
SendAnswers ==
    {<<"ok", "ok">>, <<"ratelimited", "ok">>}
    \cup {<<first, second>> : first \in BOT_NOT_IN_CHANNEL, second \in {"ok", "ratelimited"}}

SlackSendAnswered(Args) ==
    \E args \in Args, answers \in SendAnswers :
        LET r == slack_send(integration_context, args, slack, answers[1], answers[2])
        IN  /\ slack.ts < MaxTs
            /\ Commit([Ran("slack_send", 0, NoEvent, <<>>, "")
                          EXCEPT !.args = args, !.answers = answers], r)
            /\ UNCHANGED <<module_health, thread_resolutions>>

SlackSendFile(Args) ==
    \E investigation_id \in Cases, args \in Args, answers \in SendAnswers :
        LET r == slack_send_file(integration_context, investigation_id, args, slack,
                                 answers[1], answers[2])
        IN  /\ slack.ts < MaxTs
            /\ Commit([Ran("slack_send_file", investigation_id, NoEvent, <<>>, "")
                          EXCEPT !.args = args, !.answers = answers], r)
            /\ UNCHANGED <<module_health, thread_resolutions>>

\* messages and files sent to users and to the channels of mirrored cases,
\* the vendor refusing or accepting each send
SendNext ==
    \/ MirrorInvestigation({NoArgs})
    \/ SlackSendAnswered(DestArgs)
    \/ SlackSendFile(FileArgs)
    \/ GetUser

SendSpec == Init /\ [][SendNext]_vars

\* ------------------------------------------------------ concurrent writers
\* what a concurrent writer runs: save_entitlement of slack_send, the command
\* set_channel_topic of a case, or a pass of check_for_mirrors
ConcRuns ==
    {[Idle EXCEPT !.op = "save_entitlement", !.ent = e] : e \in Entitlements}
    \cup {[Idle EXCEPT !.op = "set_channel_topic", !.inv = c] : c \in Cases}
    \cup {[Idle EXCEPT !.op = "check_for_mirrors"]}

\* get_integration_context(): the writer reads the store; save_entitlement
\* is called with the ts of the message the vendor has just accepted
StartRunOf(Runs) ==
    \E w \in Writers, run \in Runs :
        LET saves == run.op = "save_entitlement"
        IN  /\ steps + runs < MaxRuns
            /\ inflight[w].op = "idle" \/ inflight[w].done
            \* the writers are named in the order of their first run
            /\ \A v \in Writers : v < w => inflight[v].op # "idle"
            /\ saves => slack.ts < MaxTs
            /\ inflight' = [inflight EXCEPT ![w] =
                                [run EXCEPT !.snap = integration_context,
                                            !.thread = IF saves THEN slack.ts + 1 ELSE 0]]
            /\ slack' = IF saves THEN [slack EXCEPT !.ts = @ + 1] ELSE slack
            /\ runs' = runs + 1
            /\ UNCHANGED <<integration_context, module_health, last, calls, thread_resolutions,
                           steps, listener, pure>>

StartRun == StartRunOf(ConcRuns)

\* what the handler of a run derives from the context it read
RunResult(run) ==
    IF run.op = "save_entitlement"
    THEN [writes |-> save_entitlement(run.snap, run.ent, run.thread, STORED_REPLY,
                                    STORED_EXPIRY, STORED_DEFAULT), calls |-> <<>>]
    ELSE IF run.op = "set_channel_topic"
    THEN LET r == set_channel_topic(run.snap, run.inv, 0, CUSTOM_TOPIC, slack)
         IN  [writes |-> r.writes, calls |-> r.calls]
    ELSE check_for_mirrors(run.snap, [users |-> [c \in Cases |-> <<>>], invite |-> "ok",
                                      raises |-> {}])

\* set_to_integration_context_with_retries(): the writer's lists are merged
\* into the latest version of the store
FinishRun ==
    \E w \in Writers :
        LET run == inflight[w]
            r == RunResult(run)
        IN  /\ run.op # "idle" /\ ~run.done
            /\ integration_context' = ApplyWrites(integration_context, r.writes)
            /\ inflight' = [inflight EXCEPT ![w].done = TRUE]
            /\ UNCHANGED <<slack, module_health, last, calls, thread_resolutions, steps, runs,
                           listener, pure>>

\* two writers whose reads and writes interleave, and the command that
\* creates the mirrors they work on
ConcMirror == steps + runs < MaxRuns /\ MirrorInvestigation({NoArgs})

ConcNext ==
    \/ ConcMirror
    \/ StartRun
    \/ FinishRun

ConcSpec == Init /\ [][ConcNext]_vars

\* --------------------------------------------------- the long-running task
\* start_listening(): long_running_loop is handed to the executor and
\* slack_loop connects the listener
StartListening ==
    /\ ~listener.listening
    /\ listener' = [listening |-> TRUE, poller |-> "submitted"]
    /\ UNCHANGED <<integration_context, slack, module_health, last, calls, thread_resolutions,
                   steps, inflight, runs, pure>>

\* the executor's thread calls long_running_loop(): it is an `async def`, so
\* the call makes a coroutine object and returns; nothing awaits the object
\* and the body, the loop over check_for_mirrors, never runs
ExecutorRun ==
    /\ listener.poller = "submitted"
    /\ listener' = [listener EXCEPT !.poller = "coroutine"]
    /\ UNCHANGED <<integration_context, slack, module_health, last, calls, thread_resolutions,
                   steps, inflight, runs, pure>>

\* the listener of slack_loop hands an event to process
Listen(Events) == listener.listening /\ Process(Events)

\* an event of type error, and the direct messages of the workspace's users
ListenerEvents ==
    {[NoEvent EXCEPT !.type = "error"]}
    \cup {[NoEvent EXCEPT !.type = "message", !.text = [ent |-> 0, words |-> "hi"], !.user = u,
                          !.channel = DM_CHANNEL] : u \in SlackUsers}

\* the long-running task and the commands that register mirrors; the host
\* starts the task and the executor runs what it was handed
ListenNext ==
    \/ StartListening
    \/ ExecutorRun
    \/ Listen(ChannelMessages)
    \/ Listen(ListenerEvents)
    \/ GetUser
    \/ MirrorInvestigation(MirrorArgs)

ListenSpec ==
    Init /\ [][ListenNext]_vars /\ WF_vars(StartListening) /\ WF_vars(ExecutorRun)

\* ------------------------------------------------- relay of channel messages
\* the store once get_user has cached the sender of the messages
RelayInit ==
    /\ integration_context = ApplyWrites(EmptyContext, get_user(EmptyContext, "U1").writes)
    /\ slack = [channels |-> <<>>, ts |-> 0]
    /\ module_health = ""
    /\ last = Ran("get_user", 0, NoEvent, <<>>, "")
    /\ calls = get_user(EmptyContext, "U1").calls
    /\ thread_resolutions = [t \in Threads |-> 0]
    /\ steps = 0
    /\ inflight = [w \in Writers |-> Idle]
    /\ runs = 0
    /\ listener = [listening |-> FALSE, poller |-> "none"]
    /\ pure = NoPure

\* mirrors are registered, several cases on one channel among them, and
\* messages arrive in the channels
RelayNext ==
    \/ MirrorInvestigation(MirrorArgs)
    \/ Process(ChannelMessages)

RelaySpec == RelayInit /\ [][RelayNext]_vars

\* ------------------------------------------------- passes of the poller
\* mirrors are registered and the poller passes over them, the case system
\* or the vendor failing on some
PollNext ==
    \/ MirrorInvestigation(MirrorArgs)
    \/ CheckForMirrorsRaising
    \/ GetUser

PollSpec == Init /\ [][PollNext]_vars

\* ------------------------------------------------------ helper functions
\* a str is the sequence of its characters; a whole GUID is written as one
\* character, "g" or "h"
MaxTaskLen == 3

\* sub occurs in s at index i
StartsAt(s, sub, i) == i + Len(sub) - 1 <= Len(s) /\ SubSeq(s, i, i + Len(sub) - 1) = sub

\* str.find(sub) + 1: the index of the first occurrence, 0 when there is none
find(s, sub) ==
    IF \E i \in 1..Len(s) : StartsAt(s, sub, i)
    THEN CHOOSE i \in 1..Len(s) : StartsAt(s, sub, i) /\ \A j \in 1..(i - 1) : ~StartsAt(s, sub, j)
    ELSE 0

\* str.replace(old, new, 1)
replace_first(s, old, new) ==
    LET i == find(s, old)
    IN  IF i = 0 THEN s ELSE SubSeq(s, 1, i - 1) \o new \o SubSeq(s, i + Len(old), Len(s))

\* str.split(sep), sep one character: every occurrence of sep separates
RECURSIVE split(_, _)
split(s, sep) ==
    LET i == find(s, <<sep>>)
    IN  IF i = 0 THEN <<s>> ELSE <<SubSeq(s, 1, i - 1)>> \o split(SubSeq(s, i + 1, Len(s)), sep)

\* what a helper returned, or the exception it raised
Returned(value) == [raised |-> "", value |-> value]
Raised(exception) == [raised |-> exception, value |-> <<>>]

\* extract_entitlement(entitlement, text): the tuple (content, guid,
\* incident_id, task_id)
extract_entitlement_indexing(entitlement, text) ==
    LET parts == split(entitlement, "@")
        id_and_task == split(parts[2], "|")
    IN  IF Len(parts) < 2 \/ Len(id_and_task) < 2 THEN Raised("IndexError")
        ELSE Returned(<<replace_first(text, entitlement, <<>>), parts[1], id_and_task[1],
                        id_and_task[2]>>)

extract_entitlement(entitlement, text) ==
    LET parts == split(entitlement, "@")
        guid == parts[1]
        id_and_task == split(parts[2], "|")
        incident_id == id_and_task[1]
        task_id == IF Len(id_and_task) > 1 THEN id_and_task[2] ELSE <<>>
        content == replace_first(text, entitlement, <<>>)
    IN  IF Len(parts) < 2 THEN Raised("IndexError")
        ELSE Returned(<<content, guid, incident_id, task_id>>)

\* the strings of length 1..n over the characters of chars
StrUpTo(chars, n) == UNION {[1..k -> chars] : k \in 1..n}

\* the entitlements ENTITLEMENT_REGEX matches, by their components: a GUID,
\* '@', a GUID or digits and underscores, and optionally '|' and a run of
\* characters that are not white space, the last of them a word character
TaskIds == {t \in StrUpTo({"7", "|", "@"}, MaxTaskLen) : t[Len(t)] = "7"}

TokenParts ==
    {[uuid |-> u, case_id |-> c, has_task |-> t # <<>>, task_id |-> t] :
        u \in {<<"g">>, <<"h">>},
        c \in {<<"1">>, <<"h">>, <<"1", "_">>},
        t \in {<<>>} \cup TaskIds}

\* '{uuid}@{case_id}' or '{uuid}@{case_id}|{task_id}'
Token(parts) ==
    parts.uuid \o <<"@">> \o parts.case_id
    \o (IF parts.has_task THEN <<"|">> \o parts.task_id ELSE <<>>)

\* the texts an entitlement is extracted from: the reply around the
\* entitlement, which may hold it a second time, or a reply without it
TextsOf(token) ==
    {prefix \o mid \o suffix :
        prefix \in {<<>>, <<"x", " ">>, token \o <<" ">>},
        mid \in {token, <<>>},
        suffix \in {<<>>, <<" ", "x">>}}

ExtractInputs ==
    UNION {{[fn |-> "extract_entitlement", parts |-> p, entitlement |-> Token(p), text |-> t,
             done |-> FALSE, out |-> Returned(<<>>)] : t \in TextsOf(Token(p))} :
           p \in TokenParts}

ExtractEntitlement ==
    /\ pure.fn = "extract_entitlement" /\ ~pure.done
    /\ pure' = [pure EXCEPT !.done = TRUE,
                            !.out = extract_entitlement(pure.entitlement, pure.text)]
    /\ UNCHANGED <<integration_context, slack, module_health, last, calls, thread_resolutions,
                   steps, inflight, runs, listener>>

\* str.replace(old, new): every occurrence, from the left, without overlap
RECURSIVE replace(_, _, _)
replace(s, old, new) ==
    LET i == find(s, old)
    IN  IF old = <<>> \/ i = 0 THEN s
        ELSE SubSeq(s, 1, i - 1) \o new \o replace(SubSeq(s, i + Len(old), Len(s)), old, new)

\* the first match of the tag expression that opens with `open` ('<@' or
\* '<#'), lazily closed by the next '>': where it starts and where it ends
TagAt(s, open) ==
    LET i == find(s, open)
        rest == SubSeq(s, i + Len(open), Len(s))
        j == find(rest, <<">">>)
    IN  IF i = 0 \/ j = 0 THEN <<>> ELSE <<i, i + Len(open) + j - 1>>

\* re.findall(expression, message): the groups of the matches, in order
RECURSIVE findall(_, _)
findall(s, open) ==
    LET t == TagAt(s, open)
    IN  IF t = <<>> THEN <<>>
        ELSE <<SubSeq(s, t[1] + Len(open), t[2] - 1)>> \o findall(SubSeq(s, t[2] + 1, Len(s)), open)

\* re.sub(expression, r'\1', message): each match replaced by its group
RECURSIVE sub(_, _)
sub(s, open) ==
    LET t == TagAt(s, open)
    IN  IF t = <<>> THEN s
        ELSE SubSeq(s, 1, t[1] - 1) \o SubSeq(s, t[1] + Len(open), t[2] - 1)
             \o sub(SubSeq(s, t[2] + 1, Len(s)), open)

USER_TAG_EXPRESSION == <<"<", "@">>
CHANNEL_TAG_EXPRESSION == <<"<", "#">>

\* get_slack_name(slack_id, client): the name cached for a channel (ids that
\* start with C, D or G) or a user (U); on a cache miss the vendor is asked
\* and the name is read at the top level of its response, where there is none
get_slack_name(ic, slack_id) ==
    LET prefix == slack_id[1]
        id == split(slack_id, "|")[1]
        conversations == SelectSeq(ic.conversations, LAMBDA c : c.id = id)
        users == SelectSeq(ic.users, LAMBDA u : u.id = slack_id)
    IN  IF slack_id = <<>> THEN <<>>
        ELSE IF prefix \in {"C", "D", "G"}
        THEN (IF conversations # <<>> THEN conversations[1].name ELSE <<>>)
        ELSE IF prefix = "U"
        THEN (IF users # <<>> THEN users[1].name ELSE <<>>)
        ELSE <<>>

\* the loop of clean_message over the matches
RECURSIVE replace_matches(_, _, _)
replace_matches(ic, message, matches) ==
    IF matches = <<>> THEN message
    ELSE replace_matches(ic, replace(message, Head(matches), get_slack_name(ic, Head(matches))),
                         Tail(matches))

\* clean_message(message, client); the messages drawn hold no URL, so the
\* closing substitution of URL_EXPRESSION finds nothing to replace
clean_message(ic, message) ==
    LET matches == findall(message, USER_TAG_EXPRESSION) \o findall(message, CHANNEL_TAG_EXPRESSION)
        untagged == sub(sub(message, USER_TAG_EXPRESSION), CHANNEL_TAG_EXPRESSION)
    IN  replace_matches(ic, untagged, matches)

\* the pieces messages are made of: tags of users and of a channel, an id
\* written as plain text, a word and a space
MaxSegs == 3
UserTag(id) == <<"<", "@">> \o id \o <<">">>
ChannelTag(id) == <<"<", "#">> \o id \o <<">">>
U1 == <<"U", "1">>
U2 == <<"U", "2">>
C1 == <<"C", "1">>
Segments ==
    {[tag |-> "user", id |-> U1, text |-> UserTag(U1)],
     [tag |-> "user", id |-> U2, text |-> UserTag(U2)],
     [tag |-> "channel", id |-> C1, text |-> ChannelTag(C1)],
     [tag |-> "", id |-> <<>>, text |-> U1],
     [tag |-> "", id |-> <<>>, text |-> <<"p">>],
     [tag |-> "", id |-> <<>>, text |-> <<" ">>]}

RECURSIVE TextOf(_)
TextOf(segments) ==
    IF segments = <<>> THEN <<>> ELSE Head(segments).text \o TextOf(Tail(segments))

\* the users and conversations cached in the store, by id and name
NameCaches ==
    {[users |-> <<[id |-> U1, name |-> <<"a">>], [id |-> U2, name |-> <<"b">>]>>,
      conversations |-> <<[id |-> C1, name |-> <<"n">>]>>],
     [users |-> <<[id |-> U1, name |-> <<"a">>]>>, conversations |-> <<>>]}

CleanInputs ==
    {[fn |-> "clean_message", segments |-> m, ic |-> c, done |-> FALSE, out |-> Returned(<<>>)] :
        m \in UNION {[1..k -> Segments] : k \in 1..MaxSegs}, c \in NameCaches}

CleanMessage ==
    /\ pure.fn = "clean_message" /\ ~pure.done
    /\ pure' = [pure EXCEPT !.done = TRUE,
                            !.out = Returned(clean_message(pure.ic, TextOf(pure.segments)))]
    /\ UNCHANGED <<integration_context, slack, module_health, last, calls, thread_resolutions,
                   steps, inflight, runs, listener>>

\* ------------------------------------- helpers of CarbonBlackResponseV2
\* _get_isolation_status_field(isolation_activated, is_isolated): the
\* isolation status of a sensor from the two flags of the API
_get_isolation_status_field_swapped(isolation_activated, is_isolated) ==
    IF isolation_activated = 1
    THEN (IF is_isolated = 1 THEN "Yes" ELSE "Pending unisolation")
    ELSE (IF is_isolated = 1 THEN "Pending isolation" ELSE "No")

_get_isolation_status_field(isolation_activated, is_isolated) ==
    IF isolation_activated = 1
    THEN (IF is_isolated = 1 THEN "Yes" ELSE "Pending isolation")
    ELSE (IF is_isolated = 1 THEN "Pending unisolation" ELSE "No")

\* the cases of test_get_isolation_status_field: the flags and the status
\* expected
ISOLATION_STATUS_CASES ==
    {<<0, 1, "Pending unisolation">>, <<0, 0, "No">>, <<1, 0, "Pending isolation">>, <<1, 1, "Yes">>}

IsolationInputs ==
    {[fn |-> "_get_isolation_status_field", isolation_activated |-> a, is_isolated |-> i,
      done |-> FALSE, out |-> Returned("")] : a \in {0, 1}, i \in {0, 1}}

GetIsolationStatusField ==
    /\ pure.fn = "_get_isolation_status_field" /\ ~pure.done
    /\ pure' = [pure EXCEPT !.done = TRUE,
                            !.out = Returned(_get_isolation_status_field(pure.isolation_activated,
                                                                         pure.is_isolated))]
    /\ UNCHANGED <<integration_context, slack, module_health, last, calls, thread_resolutions,
                   steps, inflight, runs, listener>>

NO_FILTER == "Carbon Black EDR - Search without any filter is not permitted."

\* the filter parameters of params, 'query' apart, as 'key:value'; a str is
\* here the sequence of its parts
Filters(params) ==
    IF params.hostname = Absent THEN <<>> ELSE <<"hostname", ":", params.hostname>>

\* _create_query_string(params, allow_empty): params gives each parameter
\* its value, Absent when the key is not in the dict
_create_query_string_filters_first(params, allow_empty) ==
    IF Filters(params) # <<>> THEN Returned(Filters(params))
    ELSE IF params.query # Absent THEN Returned(<<params.query>>)
    ELSE IF ~allow_empty THEN [raised |-> NO_FILTER, value |-> <<>>]
    ELSE Returned(<<>>)

_create_query_string(params, allow_empty) ==
    IF params.query # Absent THEN Returned(<<params.query>>)
    ELSE IF Filters(params) = <<>> /\ ~allow_empty THEN [raised |-> NO_FILTER, value |-> <<>>]
    ELSE Returned(Filters(params))

\* QUERY_STRING_CASES of test_create_query_string, and the case of
\* test_fail_create_query_string: params, allow_empty, what is expected
QUERY_STRING_CASES ==
    {<<[hostname |-> "ec2amaz-l4c2okc", query |-> "chrome.exe"], FALSE, Returned(<<"chrome.exe">>)>>,
     <<[hostname |-> "ec2amaz-l4c2okc", query |-> Absent], FALSE,
       Returned(<<"hostname", ":", "ec2amaz-l4c2okc">>)>>,
     <<[hostname |-> Absent, query |-> "chrome.exe"], FALSE, Returned(<<"chrome.exe">>)>>,
     <<[hostname |-> Absent, query |-> Absent], TRUE, Returned(<<>>)>>,
     <<[hostname |-> Absent, query |-> Absent], FALSE, [raised |-> NO_FILTER, value |-> <<>>]>>}

QueryInputs ==
    {[fn |-> "_create_query_string", params |-> [hostname |-> h, query |-> q], allow_empty |-> e,
      done |-> FALSE, out |-> Returned(<<>>)] :
        h \in {Absent, "ec2amaz-l4c2okc"}, q \in {Absent, "chrome.exe"}, e \in BOOLEAN}

CreateQueryString ==
    /\ pure.fn = "_create_query_string" /\ ~pure.done
    /\ pure' = [pure EXCEPT !.done = TRUE,
                            !.out = _create_query_string(pure.params, pure.allow_empty)]
    /\ UNCHANGED <<integration_context, slack, module_health, last, calls, thread_resolutions,
                   steps, inflight, runs, listener>>

\* the helper functions, each applied once to arguments drawn at the start
PureInit ==
    InitState /\ pure \in ExtractInputs \cup CleanInputs \cup IsolationInputs \cup QueryInputs

PureNext ==
    \/ ExtractEntitlement
    \/ CleanMessage
    \/ GetIsolationStatusField
    \/ CreateQueryString

PureSpec == PureInit /\ [][PureNext]_vars

\* =============================================================== claims
Mirrors == integration_context.mirrors
MirrorIds(mirrors) == {mirrors[i].investigation_id : i \in DOMAIN mirrors}
\* the calls of the last handler with a given name
CallsNamed(name) == SelectSeq(calls, LAMBDA c : c.call = name)

C2_OneMirrorPerCase ==
    \A i, j \in DOMAIN Mirrors :
        Mirrors[i].investigation_id = Mirrors[j].investigation_id => i = j

\* two mirrors of different cases share one channel_id
C2_Witness ==
    \E i, j \in DOMAIN Mirrors :
        /\ Mirrors[i].investigation_id # Mirrors[j].investigation_id
        /\ Mirrors[i].channel_id = Mirrors[j].channel_id

\* C7: after process has handled a channel message, no case note (addEntry)
\* was appended for a mirror whose direction is FromDemisto or whose type is
\* none
C7_NoNoteForBlockedMirror ==
    last.op = "process" =>
        \A k \in DOMAIN calls : \A i \in DOMAIN Mirrors :
            (calls[k].call = "addEntry" /\ Mirrors[i].investigation_id = calls[k].inv)
            => (Mirrors[i].mirror_direction # "FromDemisto" /\ Mirrors[i].mirror_type # "none")

\* a message with text from a cached sender arrived in the channel of a
\* mirror typed none, and no note was appended
C7_Witness ==
    /\ last.op = "process"
    /\ last.event.text.words # ""
    /\ \E u \in DOMAIN integration_context.users : integration_context.users[u].id = last.event.user
    /\ \E i \in DOMAIN Mirrors :
          /\ Mirrors[i].channel_id = last.event.channel
          /\ Mirrors[i].mirror_type = "none"
    /\ CallsNamed("addEntry") = <<>>

\* C8 (as stated): one pass of check_for_mirrors leaves no mirror that was
\* pending with mirror_to, mirror_direction and mirror_type set unactivated
C8_PassActivatesEveryPendingMirror ==
    [][last'.op = "check_for_mirrors" =>
          \A i \in DOMAIN Mirrors :
              (/\ ~Mirrors[i].mirrored
               /\ Mirrors[i].mirror_to # ""
               /\ Mirrors[i].mirror_direction # ""
               /\ Mirrors[i].mirror_type # "")
              => \E j \in DOMAIN integration_context'.mirrors :
                    /\ integration_context'.mirrors[j].investigation_id = Mirrors[i].investigation_id
                    /\ integration_context'.mirrors[j].mirrored]_vars

\* the mirrorInvestigation calls of the last pass for mirrors typed other
\* than none on channel c, and its invites to channel c
ActivatedOn(c) ==
    SelectSeq(calls, LAMBDA k : k.call = "mirrorInvestigation" /\ k.chan = c /\ k.who # "none")
InvitesTo(c) == SelectSeq(calls, LAMBDA k : k.call = "conversations_invite" /\ k.chan = c)
BotInvitesTo(c) ==
    SelectSeq(calls, LAMBDA k : k.call = "conversations_invite" /\ k.chan = c /\ k.who = BOT)
\* the users of a list that exist in the workspace
FoundIn(user_list) == Cardinality({i \in DOMAIN user_list : user_list[i] \in {"U1", "U2"}})

Questions == integration_context.questions
QuestionsOfThread(t) == {i \in DOMAIN Questions : Questions[i].thread = t}

\* C3: at most one Question matches a thread id; a threaded reply that
\* check_and_handle_entitlement resolves removes that Question from the
\* store, and the case system's resolve-entitlement is invoked at most once
\* for a thread's Question through threaded replies, a second reply in the
\* thread matching nothing
C3_ThreadedResolutionIsSingleShot ==
    /\ \A t \in Threads : Cardinality(QuestionsOfThread(t)) <= 1
    /\ \A t \in Threads : thread_resolutions[t] <= 1
    /\ \A t \in Threads :
           (last.op = "process" /\ last.event.thread = t /\ ThreadCalls(calls, t) > 0)
               => QuestionsOfThread(t) = {}

\* a second reply of a cached user in a thread whose Question was resolved:
\* it is handled without error and resolves nothing
C3_Witness ==
    \E t \in Threads :
        /\ thread_resolutions[t] = 1
        /\ last.op = "process" /\ last.event.type = "message" /\ last.event.thread = t
        /\ ~last.event.bot
        /\ CallsNamed("handleEntitlementForUser") = <<>>
        /\ CallsNamed("handle_listen_error") = <<>>
        /\ QuestionsOfThread(t) = {}

\* C4: after an interactive action resolves an entitlement in process, the
\* Question stored for that entitlement is no longer in the questions
\* collection
C4_ActionRemovesQuestion ==
    (last.op = "process" /\ last.event.type = "action"
        /\ CallsNamed("handleEntitlementForUser") # <<>>)
        => \A i \in DOMAIN Questions : Questions[i].entitlement # last.event.action_ent

\* the Question a writer's save_entitlement appends
SavedBy(w) ==
    [thread |-> inflight[w].thread, entitlement |-> inflight[w].ent, reply |-> STORED_REPLY,
     expiry |-> STORED_EXPIRY, default_response |-> STORED_DEFAULT,
     remove |-> FALSE]

\* two writers have both run save_entitlement to its end from the same
\* snapshot, each with an entitlement that is new and not the other's
BothSaved(w1, w2) ==
    /\ w1 # w2
    /\ inflight[w1].op = "save_entitlement" /\ inflight[w1].done
    /\ inflight[w2].op = "save_entitlement" /\ inflight[w2].done
    /\ inflight[w1].snap = inflight[w2].snap
    /\ inflight[w1].ent # inflight[w2].ent
    /\ \A i \in DOMAIN inflight[w1].snap.questions :
           inflight[w1].snap.questions[i].entitlement \notin {inflight[w1].ent, inflight[w2].ent}

\* C5: when two concurrent callers of save_entitlement read the same
\* snapshot of questions and each appends a new Question, the store holds
\* both new Questions and every Question of the snapshot, whatever the
\* order of their reads and writes
C5_NoAppendLost ==
    \A w1 \in Writers, w2 \in Writers :
        BothSaved(w1, w2) =>
            /\ \E i \in DOMAIN Questions : Questions[i] = SavedBy(w1)
            /\ \E i \in DOMAIN Questions : Questions[i] = SavedBy(w2)
            /\ \A j \in DOMAIN inflight[w1].snap.questions :
                   \E i \in DOMAIN Questions : Questions[i] = inflight[w1].snap.questions[j]

C5_Witness ==
    \E w1 \in Writers, w2 \in Writers :
        /\ BothSaved(w1, w2)
        /\ inflight[w1].snap.questions # <<>>
        /\ Len(Questions) = Len(inflight[w1].snap.questions) + 2

MirrorOf(ic, c) == SelectSeq(ic.mirrors, LAMBDA m : m.investigation_id = c)

\* the cases whose mirror a run changes
Targets(run) ==
    IF run.op = "set_channel_topic" THEN {run.inv}
    ELSE IF run.op = "check_for_mirrors"
    THEN {c \in Cases : \E i \in DOMAIN run.snap.mirrors :
                            run.snap.mirrors[i].investigation_id = c
                            /\ ~run.snap.mirrors[i].mirrored}
    ELSE {}

\* C6: the write of a writer that changes mirror A leaves every other
\* mirror B as the latest version of the store holds it: it does not write
\* a stale copy of B over a change committed after the writer read
C6_WriteKeepsOtherMirrors ==
    [][\A w \in Writers :
          (inflight[w].op # "idle" /\ ~inflight[w].done /\ inflight'[w].done)
              => \A c \in Cases \ Targets(inflight[w]) :
                     MirrorOf(integration_context', c) = MirrorOf(integration_context, c)]_vars

PendingValid(c) ==
    \E i \in DOMAIN Mirrors :
        /\ Mirrors[i].investigation_id = c
        /\ ~Mirrors[i].mirrored
        /\ MirrorIsValid(Mirrors[i])

\* C10: once the listener is started, a mirror stored with mirrored=false
\* and with mirror_to, mirror_direction and mirror_type all set is
\* eventually marked mirrored=true, even if no message arrives: no such
\* mirror stays pending for ever under a started listener (here while the
\* exploration could still run further handlers, so that the mirror is not
\* left pending by the step bound)
C10_PendingEventuallyMirrored ==
    \A c \in Cases : ~<>[](listener.listening /\ PendingValid(c) /\ steps < MaxSteps)

\* a step in which mirror_investigation runs for case c
MirrorInvestigationStep(c) ==
    steps' = steps + 1 /\ last'.op = "mirror_investigation" /\ last'.inv = c

\* C11: mirror_investigation called twice in a row for the same case with
\* the same arguments succeeds both times with the same channel id and
\* name, creates no second channel and leaves the mirror of every other
\* case unchanged
C11_MirrorTwiceIsIdempotent ==
    [][\A c \in Cases :
          (/\ last.op = "mirror_investigation" /\ last.inv = c /\ last.error = ""
           /\ MirrorInvestigationStep(c) /\ last'.args = last.args)
              => /\ last'.error = ""
                 /\ Len(slack'.channels) = Len(slack.channels)
                 /\ \A d \in Cases \ {c} :
                        MirrorOf(integration_context', d) = MirrorOf(integration_context, d)
                 /\ Len(MirrorOf(integration_context', c)) = 1
                 /\ MirrorOf(integration_context', c)[1].channel_id
                        = MirrorOf(integration_context, c)[1].channel_id
                 /\ MirrorOf(integration_context', c)[1].channel_name
                        = MirrorOf(integration_context, c)[1].channel_name]_vars

\* the channel name mirror_investigation asks for: channelName, or by
\* default the incident name of the case
RequestedName(c, args) == IF args.channelName # 0 THEN args.channelName ELSE IncidentName(c)

\* C12: mirror_investigation for a case without mirror, when no mirror has
\* the requested channel name, creates a channel of that name, invites the
\* bot to it, stores a mirror of the case bound to the new channel with
\* mirrored=false, and posts exactly one introductory message to it
C12_FirstMirrorCreatesChannel ==
    [][\A c \in Cases :
          (/\ MirrorInvestigationStep(c)
           /\ MirrorOf(integration_context, c) = <<>>
           /\ \A i \in DOMAIN Mirrors : Mirrors[i].channel_name # RequestedName(c, last'.args))
              => LET new_id == Len(slack.channels) + 1
                     created == MirrorOf(integration_context', c)
                 IN  /\ last'.error = ""
                     /\ Len(slack'.channels) = new_id
                     /\ slack'.channels[new_id].name = RequestedName(c, last'.args)
                     /\ \E i \in DOMAIN calls' :
                            /\ calls'[i].call = "conversations_invite"
                            /\ calls'[i].chan = new_id /\ calls'[i].who = BOT
                     /\ Len(created) = 1
                     /\ created[1].channel_id = new_id
                     /\ created[1].channel_name = RequestedName(c, last'.args)
                     /\ ~created[1].mirrored
                     /\ Len(SelectSeq(calls', LAMBDA k : k.call = "chat_postMessage")) = 1
                     /\ \A i \in DOMAIN calls' :
                            calls'[i].call = "chat_postMessage" => calls'[i].chan = new_id]_vars

\* a mirror stored with mirrored=false on a channel created by the call
\* that stored it, the introductory message posted, while another case
\* already has its mirror
C12_Witness ==
    /\ last.op = "mirror_investigation" /\ last.error = ""
    /\ Len(Mirrors) = 2
    /\ \E i \in DOMAIN Mirrors :
           /\ Mirrors[i].investigation_id = last.inv
           /\ Mirrors[i].channel_id = Len(slack.channels)
           /\ ~Mirrors[i].mirrored
    /\ CallsNamed("conversations_create") # <<>>
    /\ Len(CallsNamed("chat_postMessage")) = 1

\* what the call would change away from the value the mirror m holds
WouldChange(m, args) ==
    \/ args.mirrorTo # Absent /\ args.mirrorTo # m.mirror_to
    \/ args.channelName # 0 /\ args.channelName # m.channel_name
    \/ args.channelTopic # <<>> /\ args.channelTopic # m.channel_topic

\* C13: mirror_investigation on a case that has a mirror is rejected
\* exactly when the call would change mirror_to, the channel name or the
\* channel topic away from the stored value; a rejected call leaves the
\* store as it was and makes no channel or topic call to the vendor
C13_RejectedExactlyOnChange ==
    [][\A c \in Cases :
          (MirrorInvestigationStep(c) /\ MirrorOf(integration_context, c) # <<>>)
              => /\ (last'.error # "")
                        <=> WouldChange(MirrorOf(integration_context, c)[1], last'.args)
                 /\ last'.error # ""
                        => /\ integration_context' = integration_context
                           /\ slack' = slack
                           /\ \A i \in DOMAIN calls' : calls'[i].call = "return_error"]_vars

\* C14: a plain message flagged as a bot echo is discarded by process
\* before any other handling: it resolves no entitlement, posts no reply,
\* triggers no direct-message handling and appends no case note
C14_BotEchoDiscarded ==
    (last.op = "process" /\ last.event.type = "message" /\ last.event.bot)
        => /\ CallsNamed("handleEntitlementForUser") = <<>>
           /\ CallsNamed("chat_postMessage") = <<>>
           /\ CallsNamed("directMessage") = <<>>
           /\ CallsNamed("addEntry") = <<>>

\* a step in which process handles a message to its end without raising
HandledMessageStep ==
    /\ steps' = steps + 1 /\ last'.op = "process" /\ last'.event.type = "message"
    /\ \A i \in DOMAIN calls' : calls'[i].call # "handle_listen_error"

\* the entitlement replies process posts in the thread of the event
EntitlementReplies(cs) ==
    SelectSeq(cs, LAMBDA k : k.call = "chat_postMessage" /\ k.who \in {THANK_YOU, STORED_REPLY})

\* C15: a message whose text matches the entitlement pattern is resolved
\* with the ids in the text and acknowledged with the fixed reply, and no
\* Question is looked up or removed, even in a thread with an open
\* Question; otherwise the open Question of the thread is resolved with its
\* stored entitlement, answered with its stored reply and removed;
\* otherwise nothing is resolved and no reply is given
C15_EntitlementPrecedence ==
    [][HandledMessageStep =>
          LET ev == last'.event
              open == SelectSeq(Questions, LAMBDA q : q.thread = ev.thread)
              resolved == SelectSeq(calls', LAMBDA k : k.call = "handleEntitlementForUser")
          IN  IF ev.text.ent # 0
              THEN /\ resolved = <<CallEnt("handleEntitlementForUser", 0, EntIncident(ev.text.ent),
                                           ev.user, ev.text.ent)>>
                   /\ integration_context'.questions = Questions
                   /\ ~ev.bot => Len(EntitlementReplies(calls')) = 1
                                  /\ EntitlementReplies(calls')[1].who = THANK_YOU
              ELSE IF ev.thread # 0 /\ open # <<>>
              THEN /\ resolved = <<CallEnt("handleEntitlementForUser", ev.thread,
                                           EntIncident(open[1].entitlement), ev.user,
                                           open[1].entitlement)>>
                   /\ integration_context'.questions
                          = SelectSeq(Questions, LAMBDA q : q # open[1])
                   /\ ~ev.bot => Len(EntitlementReplies(calls')) = 1
                                  /\ EntitlementReplies(calls')[1].who = open[1].reply
              ELSE /\ resolved = <<>>
                   /\ integration_context'.questions = Questions
                   /\ EntitlementReplies(calls') = <<>>]_vars

\* a message carrying an entitlement arrived in the thread of an open
\* Question of another entitlement: the text's entitlement was resolved
\* and the Question is still stored
C15_Witness ==
    /\ last.op = "process" /\ last.event.type = "message" /\ last.event.text.ent # 0
    /\ \E i \in DOMAIN Questions :
           /\ Questions[i].thread = last.event.thread
           /\ Questions[i].entitlement # last.event.text.ent
    /\ \E i \in DOMAIN calls :
           calls[i].call = "handleEntitlementForUser" /\ calls[i].ent = last.event.text.ent
    /\ CallsNamed("handle_listen_error") = <<>>

\* C16: whenever process finishes handling an event that is not of type
\* error without raising, the health status is clear at the end of it
C16_HandledEventClearsHealth ==
    (last.op = "process" /\ last.event.type # "error"
        /\ CallsNamed("handle_listen_error") = <<>>)
        => module_health = ""

\* a step in which process handles an event
ProcessStep == steps' = steps + 1 /\ last'.op = "process"

\* C17: an exception raised while process handles an event is caught and
\* surfaces only as a degraded health status: the listener keeps
\* listening; an event of type error likewise only degrades the health,
\* changes nothing in the store and appends no case note
C17_ExceptionOnlyDegradesHealth ==
    [][/\ (ProcessStep /\ \E i \in DOMAIN calls' : calls'[i].call = "handle_listen_error")
           => /\ module_health' = "error"
              /\ listener' = listener
       /\ (ProcessStep /\ last'.event.type = "error")
           => /\ module_health' = "error"
              /\ integration_context' = integration_context
              /\ \A i \in DOMAIN calls' : calls'[i].call = "handle_listen_error"
       /\ listener.listening => listener'.listening]_vars

\* the listener has handled a direct message whose handling raised after
\* the message was passed to the case system: the health is degraded and
\* the listener still listens
C17_Witness ==
    /\ listener.listening
    /\ last.op = "process" /\ last.event.channel = DM_CHANNEL
    /\ CallsNamed("directMessage") # <<>>
    /\ CallsNamed("handle_listen_error") # <<>>
    /\ module_health = "error"

\* C18 (as stated): when close_channel archives a channel, whether found
\* through the current case's mirror or through the channel argument, no
\* mirror bound to that channel stays in the store, so no lookup finds one
C18_ArchiveRemovesMirrors ==
    (last.op = "close_channel" /\ last.error = "") =>
        \A k \in DOMAIN calls :
            calls[k].call = "conversations_archive" =>
                /\ \A i \in DOMAIN Mirrors : Mirrors[i].channel_id # calls[k].chan
                /\ \A c \in Cases :
                       LET found == find_mirror_by_investigation(integration_context, c)
                       IN  found = <<>> \/ found[1].channel_id # calls[k].chan

\* the sends a command made: the messages posted or the files uploaded
SendAttempts ==
    IF last.op = "slack_send" THEN CallsNamed("chat_postMessage") ELSE CallsNamed("files_upload")

\* the calls of the last send command from its first send on, by name
SendTrace ==
    LET sends == SelectSeq(calls, LAMBDA c : c.call \in {"chat_postMessage", "files_upload",
                                                         "auth_test", "conversations_invite"})
    IN  [i \in DOMAIN sends |-> sends[i].call]

GivenDestinations(args) ==
    (IF args.to # "" THEN {"to"} ELSE {})
    \cup (IF args.channel # 0 THEN {"channel"} ELSE {})
    \cup (IF args.group # 0 THEN {"group"} ELSE {})

\* C20 (as stated): slack_send given two or more of to, channel and group
\* ends with 'Only one destination can be provided.' and sends nothing
C20_TwoDestinationsRejected ==
    (last.op = "slack_send" /\ Cardinality(GivenDestinations(last.args)) >= 2) =>
        /\ last.error = ONE_DESTINATION
        /\ CallsNamed("chat_postMessage") = <<>>

\* extract_entitlement has returned for an entitlement
Extracted == pure.fn = "extract_entitlement" /\ pure.done /\ pure.out.raised = ""

\* C21 (as stated): for an entitlement built from a uuid, a case id and
\* possibly a task id, and a text that contains it, extract_entitlement
\* returns the text with the first occurrence of the entitlement removed,
\* and the very uuid, case id and task id it was built from (an empty task
\* id when it has none)
C21_ExtractRoundTrip ==
    (Extracted /\ find(pure.text, pure.entitlement) # 0) =>
        LET content == pure.out.value[1]
            i == find(pure.text, pure.entitlement)
        IN  /\ Len(content) = Len(pure.text) - Len(pure.entitlement)
            /\ pure.text = SubSeq(content, 1, i - 1) \o pure.entitlement
                            \o SubSeq(content, i, Len(content))
            /\ pure.out.value[2] = pure.parts.uuid
            /\ pure.out.value[3] = pure.parts.case_id
            /\ pure.out.value[4] = pure.parts.task_id

\* C22: extract_entitlement never raises for an entitlement: it returns a
\* tuple of four, whose task id is the empty string when the entitlement
\* has no task id
C22_ExtractNeverRaises ==
    (pure.fn = "extract_entitlement" /\ pure.done) =>
        /\ pure.out.raised = ""
        /\ Len(pure.out.value) = 4
        /\ ~pure.parts.has_task => pure.out.value[4] = <<>>

\* an entitlement without task id was extracted from a reply
C22_Witness ==
    /\ Extracted
    /\ ~pure.parts.has_task
    /\ pure.out.value[4] = <<>>
    /\ find(pure.text, pure.entitlement) # 0

\* the name cached for an id, <<>> when none is
CachedName(ic, tag, id) ==
    LET list == IF tag = "user" THEN ic.users ELSE ic.conversations
        hits == SelectSeq(list, LAMBDA e : e.id = id)
    IN  IF hits = <<>> THEN <<>> ELSE hits[1].name

\* a message with each tag replaced by the cached name and the rest kept
RECURSIVE Cleaned(_, _)
Cleaned(ic, segments) ==
    IF segments = <<>> THEN <<>>
    ELSE (IF Head(segments).tag = "" THEN Head(segments).text
          ELSE CachedName(ic, Head(segments).tag, Head(segments).id))
         \o Cleaned(ic, Tail(segments))

\* every tag of the message names a cached user or channel
AllCached(ic, segments) ==
    \A k \in DOMAIN segments :
        segments[k].tag # "" => CachedName(ic, segments[k].tag, segments[k].id) # <<>>

\* C23 (as stated): clean_message replaces every user tag and channel tag
\* by the name cached for its id and leaves the rest of the message as it is
C23_CleanReplacesOnlyTags ==
    (pure.fn = "clean_message" /\ pure.done /\ AllCached(pure.ic, pure.segments)) =>
        pure.out.value = Cleaned(pure.ic, pure.segments)

\* C24: _get_isolation_status_field returns a status for every pair of
\* flags: 'Yes' for (1,1), 'No' for (0,0), 'Pending isolation' for (1,0)
\* and 'Pending unisolation' for (0,1), as its test expects
C24_IsolationStatusTable ==
    (pure.fn = "_get_isolation_status_field" /\ pure.done) =>
        LET a == pure.isolation_activated
            i == pure.is_isolated
        IN  /\ pure.out.raised = ""
            /\ (a = 1 /\ i = 1) => pure.out.value = "Yes"
            /\ (a = 0 /\ i = 0) => pure.out.value = "No"
            /\ (a = 1 /\ i = 0) => pure.out.value = "Pending isolation"
            /\ (a = 0 /\ i = 1) => pure.out.value = "Pending unisolation"
            /\ <<a, i, pure.out.value>> \in ISOLATION_STATUS_CASES

\* the status of a sensor whose isolation was asked for and is not yet in
\* force has been computed
C24_Witness ==
    /\ pure.fn = "_get_isolation_status_field" /\ pure.done
    /\ pure.isolation_activated = 1 /\ pure.is_isolated = 0
    /\ pure.out.value = "Pending isolation"

\* C25: _create_query_string returns the 'query' argument when there is
\* one, whatever the other parameters; otherwise the filters as
\* 'key:value'; without any parameter the empty string when allow_empty is
\* true, and otherwise it fails with the message of NO_FILTER; the cases of
\* its tests come out as expected
C25_QueryStringCases ==
    (pure.fn = "_create_query_string" /\ pure.done) =>
        LET params == pure.params
        IN  /\ params.query # Absent =>
                   pure.out = [raised |-> "", value |-> <<params.query>>]
            /\ (params.query = Absent /\ params.hostname # Absent) =>
                   pure.out = [raised |-> "", value |-> <<"hostname", ":", params.hostname>>]
            /\ (params.query = Absent /\ params.hostname = Absent /\ pure.allow_empty) =>
                   pure.out = [raised |-> "", value |-> <<>>]
            /\ (params.query = Absent /\ params.hostname = Absent /\ ~pure.allow_empty) =>
                   pure.out =
                       [raised |-> "Carbon Black EDR - Search without any filter is not permitted.",
                        value |-> <<>>]
            /\ \A case \in QUERY_STRING_CASES :
                   (case[1] = params /\ case[2] = pure.allow_empty) => pure.out = case[3]

\* a query string was asked for with both a query and a filter, and the
\* query came back
C25_Witness ==
    /\ pure.fn = "_create_query_string" /\ pure.done
    /\ pure.params.query = "chrome.exe" /\ pure.params.hostname # Absent
    /\ pure.out.value = <<"chrome.exe">>

\* process has handled a message with text, from a person, outside any
\* thread and without entitlement, in a channel
RelayedMessage ==
    /\ last.op = "process"
    /\ last.event.type = "message" /\ ~last.event.bot
    /\ last.event.text.ent = 0 /\ last.event.text.words # ""
    /\ last.event.channel # DM_CHANNEL

\* C26 (as stated): a message in a channel is appended as a note to the
\* case of every mirror on that channel, activated or fit to be, whose
\* type is not none and whose direction lets chat flow to the case,
\* whatever other mirrors the channel has and wherever they stand in the list
C26_EligibleMirrorsGetNote ==
    RelayedMessage =>
        \A i \in DOMAIN Mirrors :
            (/\ Mirrors[i].channel_id = last.event.channel
             /\ (Mirrors[i].mirrored \/ MirrorIsValid(Mirrors[i]))
             /\ ~RelayBlocked(Mirrors[i]))
            => \E k \in DOMAIN calls :
                   calls[k].call = "addEntry" /\ calls[k].inv = Mirrors[i].investigation_id

\* C27 (as stated): process appends a note only to the case of a mirror
\* that is activated, before the event or by process during it (and then
\* stored as activated); a pending mirror that cannot be activated, its
\* mirror_to, direction or type being unset, gets no note
C27_NoteOnlyIfActivated ==
    RelayedMessage =>
        \A k \in DOMAIN calls :
            calls[k].call = "addEntry" =>
                \E i \in DOMAIN Mirrors :
                    /\ Mirrors[i].investigation_id = calls[k].inv
                    /\ Mirrors[i].channel_id = last.event.channel
                    /\ Mirrors[i].mirrored

\* the activation of one mirror failed in the pass that has just run: the
\* case system refused the mirror of case last'.inv, or the vendor refused
\* an invitation
ActivationFailed ==
    /\ last'.op = "check_for_mirrors"
    /\ \/ last'.error # ""
       \/ (last'.invite = "error" /\ \E k \in DOMAIN calls' : calls'[k].call = "conversations_invite")

\* C28 (as stated): an error while one mirror is activated in a pass of
\* check_for_mirrors does not block the others: every other pending valid
\* mirror is activated and stored by that pass
C28_FailureDoesNotBlockOthers ==
    [][ActivationFailed =>
          \A i \in DOMAIN Mirrors :
              (/\ ~Mirrors[i].mirrored
               /\ MirrorIsValid(Mirrors[i])
               /\ Mirrors[i].investigation_id # last'.inv)
              => \E j \in DOMAIN integration_context'.mirrors :
                    /\ integration_context'.mirrors[j].investigation_id = Mirrors[i].investigation_id
                    /\ integration_context'.mirrors[j].mirrored]_vars

C30_OmittedArgumentsKeepFields ==
    [][\A c \in Cases :
          (MirrorInvestigationStep(c) /\ last'.error = "" /\ MirrorOf(integration_context, c) # <<>>)
          => LET before == MirrorOf(integration_context, c)[1]
                 after == MirrorOf(integration_context', c)
             IN  /\ after # <<>>
                 /\ after[1].channel_id = before.channel_id
                 /\ after[1].channel_name = before.channel_name
                 /\ last'.args.type = Absent => after[1].mirror_type = before.mirror_type
                 /\ last'.args.direction = Absent =>
                        after[1].mirror_direction = before.mirror_direction
                 /\ last'.args.autoclose = Absent => after[1].auto_close = before.auto_close]_vars

\* ------------------------------------------------- the topic of a channel
\* the cases whose mirror is in the channel of case c in a context, c included
CasesInChannelOf(ic, ic_after, c) ==
    {c} \cup {m \in Cases :
                 /\ MirrorOf(ic, m) # <<>>
                 /\ MirrorOf(ic, m)[1].channel_id = MirrorOf(ic_after, c)[1].channel_id}

\* the topic mirror_investigation starts from: the one stored in the mirror
\* of the case, or in a mirror of the channel if the case has none yet
CurrentTopic(ic, ic_after, c) ==
    IF MirrorOf(ic, c) # <<>> THEN MirrorOf(ic, c)[1].channel_topic
    ELSE LET same == SelectSeq(ic.mirrors,
                        LAMBDA m : m.channel_id = MirrorOf(ic_after, c)[1].channel_id)
         IN  IF same # <<>> THEN same[1].channel_topic ELSE <<>>

TopicListsExactly(topic, cases) ==
    /\ Len(topic) = Cardinality(cases)
    /\ {topic[i] : i \in DOMAIN topic} = {IncidentName(m) : m \in cases}

\* C31: a run of mirror_investigation without channelTopic, the current
\* topic empty or carrying the marker incident-, stores in the mirror the
\* list of incident-<id> of all the cases mirrored into the channel, each
\* once, the requesting case among them, and sets it on the channel when it
\* differs from the stored one; a custom topic is kept verbatim and no
\* set-topic call is made
C31_TopicListsCasesOfChannel ==
    [][\A c \in Cases :
          (/\ MirrorInvestigationStep(c) /\ last'.error = ""
           /\ last'.args.channelTopic = <<>>)
              => LET after == MirrorOf(integration_context', c)[1]
                     current == CurrentTopic(integration_context, integration_context', c)
                     setTopic == SelectSeq(calls', LAMBDA k : k.call = "conversations_setTopic")
                 IN  IF current = <<>> \/ HasIncidentMarker(current)
                     THEN /\ TopicListsExactly(after.channel_topic,
                                 CasesInChannelOf(integration_context, integration_context', c))
                          /\ (after.channel_topic # current => setTopic # <<>>)
                     ELSE after.channel_topic = current /\ setTopic = <<>>]_vars

\* ------------------------------------------------- joining a channel
\* the mirrors of a context stored under a channel name
MirrorsNamed(ic, channel_name) ==
    SelectSeq(ic.mirrors, LAMBDA m : m.channel_name = channel_name)

\* C32: mirror_investigation for a case without mirror, its channelName the
\* channel_name of an existing mirror, creates no channel, sends no
\* introductory message and stores the new mirror with the channel_id and
\* the channel_name of that mirror and mirrored = false; the existing
\* mirrors stay as they were
C32_JoinExistingChannel ==
    [][\A c \in Cases :
          (/\ MirrorInvestigationStep(c)
           /\ MirrorOf(integration_context, c) = <<>>
           /\ last'.args.channelName # 0
           /\ MirrorsNamed(integration_context, last'.args.channelName) # <<>>)
              => LET existing == MirrorsNamed(integration_context, last'.args.channelName)
                     after == MirrorOf(integration_context', c)
                 IN  /\ last'.error = ""
                     /\ slack'.channels = slack.channels
                     /\ \A i \in DOMAIN calls' :
                            calls'[i].call \notin {"conversations_create", "chat_postMessage"}
                     /\ Len(after) = 1
                     /\ \E i \in DOMAIN existing :
                            /\ after[1].channel_id = existing[i].channel_id
                            /\ after[1].channel_name = existing[i].channel_name
                     /\ ~after[1].mirrored
                     /\ \A i \in DOMAIN Mirrors :
                            \E j \in DOMAIN integration_context'.mirrors :
                                integration_context'.mirrors[j] = Mirrors[i]]_vars

\* a case has just joined the channel of another case
C32_Witness ==
    /\ last.op = "mirror_investigation" /\ last.error = "" /\ last.args.channelName # 0
    /\ Len(Mirrors) = 2
    /\ Mirrors[1].channel_id = Mirrors[2].channel_id
    /\ Mirrors[2].investigation_id = last.inv
    /\ Len(slack.channels) = 1
    /\ CallsNamed("conversations_create") = <<>>

\* ------------------------------------------------- the routes of a message
\* send-notification with a JSON that carries an entitlement and no reply:
\* parsed_message.get('reply') is None, here the reply ""
QuestionArgs ==
    SendArgs
    \cup {[NoSend EXCEPT !.to = "U1", !.msg = [ent |-> e, json |-> TRUE, reply |-> "",
                                                  expiry |-> "", default_response |-> ""]] :
             e \in Entitlements}

\* questions with and without a reply text, mirrors, and the messages of
\* direct-message threads and of channels
RouteNext ==
    \/ SlackSend(QuestionArgs)
    \/ MirrorInvestigation({NoArgs})
    \/ Process(EntEvents)
    \/ Process(ChannelMessages)
    \/ GetUser

RouteSpec == Init /\ [][RouteNext]_vars

\* the routes the calls of a run of process show
EntitlementResolved(cs) == \E i \in DOMAIN cs : cs[i].call = "handleEntitlementForUser"
RepliedInThread(cs, thread) ==
    \E i \in DOMAIN cs : cs[i].call = "chat_postMessage" /\ cs[i].chan = thread /\ cs[i].inv = 0
                         /\ cs[i].who # "dm reply"
DirectMessageHandled(cs) == \E i \in DOMAIN cs : cs[i].call \in {"directMessage", "findUser"}
Relayed(cs) == \E i \in DOMAIN cs : cs[i].call \in {"addEntry", "mirrorInvestigation"}

\* C33: a plain message of a person (its sender in the users cache) takes
\* one route of process: an entitlement resolved means the reply posted in
\* the thread, no direct-message handling and no case note; else a
\* direct-message channel means handle_dm and no case note; else the relay
\* to the mirrors of the channel and no direct-message handling
C33_OneRoutePerMessage ==
    [][(/\ steps' = steps + 1 /\ last'.op = "process"
        /\ last'.event.type = "message" /\ ~last'.event.bot
        /\ ~get_user_by_id_async(integration_context, last'.event.user).raised)
          => IF EntitlementResolved(calls')
             THEN /\ RepliedInThread(calls', last'.event.thread)
                  /\ ~DirectMessageHandled(calls') /\ ~Relayed(calls')
             ELSE IF last'.event.channel = DM_CHANNEL
             THEN DirectMessageHandled(calls') /\ ~Relayed(calls')
             ELSE ~DirectMessageHandled(calls')]_vars

\* ------------------------------------------------- the users cache
Cached(ic, user_id) == \E i \in DOMAIN ic.users : ic.users[i].id = user_id

\* C35: process of a message whose sender is a user of the workspace that
\* the users cache does not hold queries the vendor for the user
\* (users_info), leaves the user in the cache and does not end in the error
\* handler of the listener
C35_CacheMissQueriesVendor ==
    [][(/\ steps' = steps + 1 /\ last'.op = "process"
        /\ last'.event.type = "message"
        /\ last'.event.user \in SlackUsers
        /\ ~Cached(integration_context, last'.event.user))
          => /\ Cached(integration_context', last'.event.user)
             /\ \E i \in DOMAIN calls' : calls'[i].call = "users_info"
             /\ \A i \in DOMAIN calls' : calls'[i].call # "handle_listen_error"]_vars

\* ------------------------------------------------- questions asked
\* the messages send-notification is called with: a JSON payload with an
\* entitlement (with or without reply text), a plain text, a plain text that
\* holds an entitlement token (json.loads fails on it), and the entries the
\* server mirrors to the channel of a case, written in the case system or
\* come from Slack (with MESSAGE_FOOTER), one of them a JSON payload
AskArgs ==
    QuestionArgs
    \cup {[NoSend EXCEPT !.to = "U1"]}
    \cup {[NoSend EXCEPT !.to = "U1",
                         !.msg = [ent |-> e, json |-> FALSE, reply |-> "", expiry |-> "",
                                  default_response |-> ""]] : e \in Entitlements}
    \cup {[NoSend EXCEPT !.channel = IncidentName(1), !.messageType = MIRROR_TYPE, !.footer = f] :
             f \in BOOLEAN}
    \cup {[NoSend EXCEPT !.channel = IncidentName(1), !.messageType = MIRROR_TYPE, !.footer = f,
                         !.msg = [ent |-> 1, json |-> TRUE, reply |-> STORED_REPLY,
                                  expiry |-> STORED_EXPIRY, default_response |-> STORED_DEFAULT]] :
             f \in BOOLEAN}

AskNext ==
    \/ SlackSendAnswered(AskArgs)
    \/ MirrorInvestigation({NoArgs})
    \/ GetUser

AskSpec == Init /\ [][AskNext]_vars

SlackSendStep == steps' = steps + 1 /\ last'.op = "slack_send"

\* the Question of a payload, its thread the ts of the message just sent
QuestionOf(msg, ts) ==
    [thread |-> ts, entitlement |-> msg.ent, reply |-> msg.reply, expiry |-> msg.expiry,
     default_response |-> msg.default_response, remove |-> FALSE]

\* a run of slack_send got a response of the vendor to its message
GotResponse ==
    /\ last'.error = ""
    /\ \E i \in DOMAIN calls' : calls'[i].call = "chat_postMessage"

C37_FooterStopsLoop ==
    [][(/\ SlackSendStep
        /\ last'.args.messageType = MIRROR_TYPE /\ last'.args.footer)
          => /\ calls' = <<>>
             /\ last'.error = ""
             /\ slack' = slack
             /\ integration_context' = integration_context]_vars

\* a mirrored entry from Slack that holds an entitlement payload reached
\* slack_send while the channel of its case exists, and nothing was sent
C37_Witness ==
    /\ last.op = "slack_send"
    /\ last.args.messageType = MIRROR_TYPE /\ last.args.footer /\ last.args.msg.ent # 0
    /\ Len(Mirrors) > 0
    /\ calls = <<>>
    /\ Questions = <<>>

\* ------------------------------------------------- incidents asked for
\* direct messages of the users of the workspace, a greeting or a request
\* for a new incident
DmEvents ==
    {[NoEvent EXCEPT !.type = "message", !.text = [ent |-> 0, words |-> w], !.user = u,
                     !.channel = DM_CHANNEL] : w \in {"hi", CREATE_INCIDENT}, u \in SlackUsers}

DmNext ==
    \/ SlackSend(SendArgs)
    \/ Process(DmEvents)
    \/ GetUser

DmSpec == Init /\ [][DmNext]_vars

\* process has handled a direct message that asks for a new incident, its
\* sender in the users cache
CreateAsked ==
    /\ steps' = steps + 1 /\ last'.op = "process"
    /\ last'.event.text.words = CREATE_INCIDENT
    /\ Cached(integration_context, last'.event.user)

\* C38: a direct message that asks for a new incident, its sender no user of
\* the case system and allow_incidents off, creates no incident and is
\* answered to the sender with 'You are not allowed to create incidents.';
\* an incident is created only for a known sender or with allow_incidents on
C38_UnknownSenderRefused ==
    [][CreateAsked
          => /\ (last'.answers = <<"unknown", "forbidden">>
                    => /\ \A i \in DOMAIN calls' : calls'[i].call # "createIncidents"
                       /\ \E i \in DOMAIN calls' :
                              calls'[i].call = "chat_postMessage" /\ calls'[i].who = NOT_ALLOWED)
             /\ ((\E i \in DOMAIN calls' : calls'[i].call = "createIncidents")
                    => last'.answers # <<"unknown", "forbidden">>)]_vars

\* ------------------------------------------------- removal and stale writers
\* the writers that work on mirrors
MirrorRuns == {run \in ConcRuns : run.op # "save_entitlement"}

ConcClose == steps + runs < MaxRuns /\ CloseChannel

\* close_channel runs while writers that have read the store have not yet
\* written
CloseNext ==
    \/ ConcMirror
    \/ StartRunOf(MirrorRuns)
    \/ FinishRun
    \/ ConcClose

CloseSpec == Init /\ [][CloseNext]_vars

\* writer w writes in this step
Writes(w) == inflight[w].op # "idle" /\ ~inflight[w].done /\ inflight'[w].done

\* C39: a mirror that close_channel has removed stays removed: the write of
\* a writer that read the store while it held the mirror of a case, made
\* after the removal of that mirror, does not put a mirror of the case back
C39_RemovedMirrorStaysRemoved ==
    [][\A w \in Writers : \A c \in Cases :
          (/\ Writes(w)
           /\ MirrorOf(inflight[w].snap, c) # <<>>
           /\ MirrorOf(integration_context, c) = <<>>)
              => MirrorOf(integration_context', c) = <<>>]_vars

\* ------------------------------------------------- the frame of a pass
PassStep == steps' = steps + 1 /\ last'.op = "check_for_mirrors"

\* the pass has activated the mirror m of the store
Activated(m, after) == ~m.mirrored /\ after = [m EXCEPT !.mirrored = TRUE]

\* C40: a pass of check_for_mirrors changes of the store only the mirrored
\* flag of the mirrors it activates, from false to true, and adds users to
\* the users cache: every other mirror and every other field of a mirror,
\* the questions, the conversations and the bot id stay as they were, and a
\* pass that activates no mirror leaves the store as it was
C40_PassChangesOnlyMirroredFlag ==
    [][PassStep
          => LET before == integration_context
                 after == integration_context'
             IN  /\ after.questions = before.questions
                 /\ after.conversations = before.conversations
                 /\ after.bot_id = before.bot_id
                 /\ Len(after.mirrors) = Len(before.mirrors)
                 /\ \A i \in DOMAIN before.mirrors :
                        \/ after.mirrors[i] = before.mirrors[i]
                        \/ Activated(before.mirrors[i], after.mirrors[i])
                 /\ \A i \in DOMAIN before.users : Cached(after, before.users[i].id)
                 /\ (after.mirrors = before.mirrors => after = before)]_vars

\* a pass has activated one mirror and left the other, which cannot be
\* activated, pending, and has cached the user it invited
C40_Witness ==
    /\ last.op = "check_for_mirrors" /\ last.error = ""
    /\ Len(Mirrors) = 2
    /\ \E i, j \in DOMAIN Mirrors : Mirrors[i].mirrored /\ ~Mirrors[j].mirrored
    /\ CallsNamed("mirrorInvestigation") # <<>>
    /\ integration_context.users # <<>>

====
